---- MODULE Spec2Model ----
(***************************************************************************)
(* Model of the load-email automation: the reference extractor             *)
(* (zapier-modules/parsers/email-parser.js), the orchestrator               *)
(* (zapier-modules/core/load-automation-service.js), the Zapier lookup      *)
(* code step (zapier-modules/zapier-code-steps/lookup-load-details.js) and  *)
(* the serverless webhook handler (api/webhook.js).                         *)
(*                                                                         *)
(* A JavaScript string is a sequence of one-character strings.  Regular    *)
(* expressions are evaluated as the engine evaluates them: leftmost start, *)
(* greedy quantifiers, alternatives in order, backtracking.                *)
(***************************************************************************)
EXTENDS Integers, Sequences, FiniteSets, TLC

VARIABLES
    content,    \* parser: the argument of extractLoadReference
    extraction, \* parser: the value it returned
    ppc,        \* parser: "call" before the call, "returned" after it
    enableQuoteFactoryLookup, \* service: config.enableQuoteFactoryLookup
    metrics,    \* service: this.metrics
    req,        \* service: the processEmail invocations
    zap,        \* Zapier lookup step: its input, position and output
    web,        \* webhook: one request, the automation object, what was sent
    fmt,        \* formatter: the arguments of one call and what it returned
    trunc,      \* parser: two inputs with a common beginning and their results
    exp,        \* Express variant: one processEmail call and what it returned
    api,        \* QuoteFactoryAPI: one client, its session and its searchLoad calls
    auth0       \* Auth0Client: one client, its token cache and its callers

parserVars == <<content, extraction, ppc>>
serviceVars == <<enableQuoteFactoryLookup, metrics, req>>
vars == <<content, extraction, ppc, enableQuoteFactoryLookup, metrics, req, zap, web,
          fmt, trunc, exp, api, auth0>>
\* what the actions of one component leave alone
notParser == <<serviceVars, zap, web, fmt, trunc, exp, api, auth0>>
notService == <<parserVars, zap, web, fmt, trunc, exp, api, auth0>>
notZap == <<parserVars, serviceVars, web, fmt, trunc, exp, api, auth0>>
notWeb == <<parserVars, serviceVars, zap, fmt, trunc, exp, api, auth0>>
notFmt == <<parserVars, serviceVars, zap, web, trunc, exp, api, auth0>>
notTrunc == <<parserVars, serviceVars, zap, web, fmt, exp, api, auth0>>
notExp == <<parserVars, serviceVars, zap, web, fmt, trunc, api, auth0>>
notApi == <<parserVars, serviceVars, zap, web, fmt, trunc, exp, auth0>>
notAuth0 == <<parserVars, serviceVars, zap, web, fmt, trunc, exp, api>>

(***************************************************************************)
(* Characters                                                              *)
(***************************************************************************)
Uppers == <<"A","B","C","D","E","F","G","H","I","J","K","L","M",
            "N","O","P","Q","R","S","T","U","V","W","X","Y","Z">>
Lowers == <<"a","b","c","d","e","f","g","h","i","j","k","l","m",
            "n","o","p","q","r","s","t","u","v","w","x","y","z">>

UpperSet == {Uppers[k] : k \in DOMAIN Uppers}
LowerSet == {Lowers[k] : k \in DOMAIN Lowers}
Digit == {"0","1","2","3","4","5","6","7","8","9"}
Space == {" ", "\t", "\n", "\r"}
WordChar == UpperSet \cup LowerSet \cup Digit \cup {"_"}
\* every character the model's strings are made of
AnyChar == WordChar \cup Space \cup {"-", "#", ":", "/", "<", ">", ".", ",", "$"}

UpperMap == [c \in LowerSet |-> Uppers[CHOOSE k \in DOMAIN Lowers : Lowers[k] = c]]
LowerMap == [c \in UpperSet |-> Lowers[CHOOSE k \in DOMAIN Uppers : Uppers[k] = c]]

\* String.prototype.toUpperCase / toLowerCase on one ASCII character
UpperChar(c) == IF c \in LowerSet THEN UpperMap[c] ELSE c
LowerChar(c) == IF c \in UpperSet THEN LowerMap[c] ELSE c

toUpperCase(s) == [k \in 1..Len(s) |-> UpperChar(s[k])]
toLowerCase(s) == [k \in 1..Len(s) |-> LowerChar(s[k])]

\* a character class under the i flag: closed under case
CI(S) == S \cup {UpperChar(c) : c \in S} \cup {LowerChar(c) : c \in S}

(***************************************************************************)
(* Regular expressions.  A pattern is a sequence of elements; group 1, when *)
(* the pattern has one, is the elements capFrom..capTo.                     *)
(*   rep: a character class repeated lo..hi times, greedy (hi = -1: no      *)
(*        upper limit)                                                      *)
(*   alt: literal words, tried in order, compared case-insensitively        *)
(*   wb : the assertion \b                                                  *)
(***************************************************************************)
Rep(cls, lo, hi) == [t |-> "rep", cls |-> cls, lo |-> lo, hi |-> hi, ws |-> <<>>]
One(cls)  == Rep(cls, 1, 1)
Opt(cls)  == Rep(cls, 0, 1)
Star(cls) == Rep(cls, 0, -1)
Plus(cls) == Rep(cls, 1, -1)
Alt(ws)   == [t |-> "alt", cls |-> {}, lo |-> 0, hi |-> 0, ws |-> ws]
Lit(w)    == Alt(<<w>>)
WB        == [t |-> "wb", cls |-> {}, lo |-> 0, hi |-> 0, ws |-> <<>>]

Pattern(els, capFrom, capTo) == [els |-> els, capFrom |-> capFrom, capTo |-> capTo]

\* the number of consecutive characters of cls from offset i, at most hi
RECURSIVE RunLen(_, _, _, _)
RunLen(cls, s, i, hi) ==
    IF i >= Len(s) \/ hi = 0 \/ s[i + 1] \notin cls THEN 0
    ELSE 1 + RunLen(cls, s, i + 1, IF hi < 0 THEN hi ELSE hi - 1)

\* does the word w stand at offset i of s, case-insensitively
WordAt(w, s, i) ==
    /\ i + Len(w) <= Len(s)
    /\ \A k \in 1..Len(w) : UpperChar(s[i + k]) = UpperChar(w[k])

RECURSIVE AltEnds(_, _, _, _)
AltEnds(ws, k, s, i) ==
    IF k > Len(ws) THEN <<>>
    ELSE (IF WordAt(ws[k], s, i) THEN <<i + Len(ws[k])>> ELSE <<>>)
         \o AltEnds(ws, k + 1, s, i)

IsWordAt(s, i) == i >= 1 /\ i <= Len(s) /\ s[i] \in WordChar

\* the offsets at which one element can end when it starts at offset i,
\* in the order backtracking tries them
ElemEnds(el, s, i) ==
    CASE el.t = "rep" ->
            LET n == RunLen(el.cls, s, i, el.hi)
            IN  IF n < el.lo THEN <<>>
                ELSE [k \in 1..(n - el.lo + 1) |-> i + n - k + 1]
      [] el.t = "alt" -> AltEnds(el.ws, 1, s, i)
      [] el.t = "wb"  -> IF IsWordAt(s, i) # IsWordAt(s, i + 1) THEN <<i>> ELSE <<>>

NoMatch == [ok |-> FALSE, start |-> -1, cs |-> -1, ce |-> -1, end |-> -1]

\* the first successful path through elements k.. of pattern p from offset i
\* (r is the outcome of the rest of the path; the group's start and end are
\* recorded on the way back)
RECURSIVE Run(_, _, _, _), Try(_, _, _, _, _), TryNext(_, _, _, _, _, _)
GroupStart(p, k, i, r) == IF r.ok /\ k = p.capFrom THEN [r EXCEPT !.cs = i] ELSE r
Run(p, k, s, i) ==
    IF k > Len(p.els) THEN [ok |-> TRUE, start |-> -1, cs |-> -1, ce |-> -1, end |-> i]
    ELSE GroupStart(p, k, i, Try(p, k, s, ElemEnds(p.els[k], s, i), 1))
Try(p, k, s, E, j) ==
    IF j > Len(E) THEN NoMatch
    ELSE TryNext(p, k, s, E, j, Run(p, k + 1, s, E[j]))
TryNext(p, k, s, E, j, r) ==
    IF r.ok THEN (IF k = p.capTo THEN [r EXCEPT !.ce = E[j]] ELSE r)
    ELSE Try(p, k, s, E, j + 1)

\* RegExp.prototype.exec from lastIndex `from`: the leftmost start that matches
RECURSIVE Exec(_, _, _), ExecAt(_, _, _, _)
Exec(p, s, from) ==
    IF from > Len(s) THEN NoMatch
    ELSE ExecAt(p, s, from, Run(p, 1, s, from))
ExecAt(p, s, from, r) ==
    IF r.ok THEN [r EXCEPT !.start = from] ELSE Exec(p, s, from + 1)

\* String.prototype.matchAll with the g flag: the successive matches
RECURSIVE MatchAll(_, _, _), MatchAllAfter(_, _, _)
MatchAll(p, s, from) == MatchAllAfter(p, s, Exec(p, s, from))
MatchAllAfter(p, s, m) ==
    IF ~m.ok THEN <<>>
    ELSE <<m>> \o MatchAll(p, s, IF m.end = m.start THEN m.end + 1 ELSE m.end)

Slice(s, a, b) == SubSeq(s, a + 1, b)   \* String.prototype.substring(a, b)

\* String.prototype.replace(pattern, '') with a pattern that has no g flag:
\* only the first match is removed
Cut(seq, m) ==
    IF m.ok THEN Slice(seq, 0, m.start) \o Slice(seq, m.end, Len(seq)) ELSE seq

ReplaceFirst(p, s) == Cut(s, Exec(p, s, 0))

\* String.prototype.replace(pattern, with) with the g flag
RECURSIVE ReplaceAll(_, _, _, _), ReplaceAllAfter(_, _, _, _, _)
ReplaceAll(p, s, with, from) == ReplaceAllAfter(p, s, with, from, Exec(p, s, from))
ReplaceAllAfter(p, s, with, from, m) ==
    IF ~m.ok THEN Slice(s, from, Len(s))
    ELSE Slice(s, from, m.start) \o with
         \o (IF m.end = m.start
             THEN (IF m.end < Len(s)
                   THEN <<s[m.end + 1]>> \o ReplaceAll(p, s, with, m.end + 1)
                   ELSE <<>>)
             ELSE ReplaceAll(p, s, with, m.end))

\* String.prototype.includes
Includes(s, w) == \E i \in 0..(Len(s) - Len(w)) : Slice(s, i, i + Len(w)) = w

\* String.prototype.startsWith
StartsWith(s, w) == Len(w) <= Len(s) /\ Slice(s, 0, Len(w)) = w

(***************************************************************************)
(* JavaScript values that are a string or not                              *)
(***************************************************************************)
Null      == [k |-> "null", v |-> <<>>]
Undefined == [k |-> "undefined", v |-> <<>>]
NonString == [k |-> "object", v |-> <<>>]   \* a truthy value that is no string
Str(s)    == [k |-> "string", v |-> s]
Truthy(x) == x.k = "object" \/ (x.k = "string" /\ x.v # <<>>)

(***************************************************************************)
(* EmailParser (zapier-modules/parsers/email-parser.js)                    *)
(***************************************************************************)
Sep == {"-", "_"} \cup Space
Hash == {"#"}
Colon == {":"}

exclusionPatterns == <<
    Pattern(<<Lit(<<"M","C">>), Star(Space), Plus(Digit)>>, 0, 0),
    Pattern(<<Lit(<<"D","O","T">>), Star(Space), Plus(Digit)>>, 0, 0),
    Pattern(<<Lit(<<"U","S","D","O","T">>), Star(Space), Plus(Digit)>>, 0, 0),
    Pattern(<<Lit(<<"i","n","v","o","i","c","e">>), Star(Space), Opt(Hash),
              Star(Space), Plus(Digit)>>, 0, 0),
    Pattern(<<Lit(<<"b","i","l","l">>), Star(Space), Opt(Hash),
              Star(Space), Plus(Digit)>>, 0, 0),
    Pattern(<<Lit(<<"p","o">>), Star(Space), Opt(Hash),
              Star(Space), Plus(Digit)>>, 0, 0),
    Pattern(<<Lit(<<"p","h","o","n","e">>), Opt(Colon), Star(Space), Plus(Digit)>>, 0, 0),
    Pattern(<<Lit(<<"t","e","l">>), Opt(Colon), Star(Space), Plus(Digit)>>, 0, 0),
    Pattern(<<Lit(<<"f","a","x">>), Opt(Colon), Star(Space), Plus(Digit)>>, 0, 0) >>

LabelWords == << <<"r","e","f">>, <<"r","e","f","e","r","e","n","c","e">>,
                 <<"n","u","m","b","e","r">>, <<"i","d">>, <<"#">> >>

\* loadPatterns[i + 1] is the source's loadPatterns[i]; extractLoadReference
\* runs every one of them with the flags 'gi'
loadPatterns == <<
    Pattern(<<Lit(<<"l","o","a","d">>), Star(Space), Alt(LabelWords),
              Star(Colon \cup {"-"} \cup Space),
              Plus(CI(UpperSet \cup Digit \cup {"-", "_"}))>>, 5, 5),
    Pattern(<<Lit(<<"q","u","o","t","e">>), Star(Space), Alt(LabelWords),
              Star(Colon \cup {"-"} \cup Space),
              Plus(CI(UpperSet \cup Digit \cup {"-", "_"}))>>, 5, 5),
    Pattern(<<Lit(<<"o","r","d","e","r">>), Star(Space), Opt(Hash), Star(Space),
              Rep(Digit, 6, 8)>>, 5, 5),
    Pattern(<<Lit(<<"r","e","f","e","r","e","n","c","e">>), Plus(Space),
              Lit(<<"n","u","m","b","e","r">>), Plus(Space), Rep(Digit, 6, 8)>>, 5, 5),
    Pattern(<<Lit(<<"r","e","f">>), Plus(Colon \cup Space), Rep(Digit, 6, 8)>>, 3, 3),
    Pattern(<<Lit(<<"Q","F">>), Opt({"-"} \cup Space), Rep(Digit, 6, 8)>>, 3, 3),
    Pattern(<<Lit(<<"Q","U","O","T","E">>), Opt({"-"} \cup Space), Rep(Digit, 6, 8)>>, 3, 3),
    Pattern(<<Rep(CI(UpperSet), 2, 4), Star(Sep), Rep(Digit, 4, 8), Star(Sep),
              Star(CI(UpperSet \cup Digit))>>, 1, 5),
    Pattern(<<Plus(CI(UpperSet \ {"I"})), Rep(Digit, 4, 8),
              Star(CI(UpperSet \cup Digit))>>, 1, 3),
    Pattern(<<WB, Rep(Digit, 6, 6), WB>>, 2, 2) >>

minLength == 4
maxLength == 20
mustContainNumbers == TRUE
bannedPrefixes == << <<"M","C">>, <<"D","O","T">>, <<"P","O">>, <<"I","N","V">> >>

ContentLimit == 5000

TagPattern == Pattern(<<One({"<"}), Star(AnyChar \ {">"}), One({">"})>>, 0, 0)
SpacesPattern == Pattern(<<Plus(Space)>>, 0, 0)

\* sanitizeContent: tags to a space, whitespace runs to one space, then the
\* first ContentLimit characters
FirstChars(s, n) == Slice(s, 0, IF Len(s) < n THEN Len(s) ELSE n)

\* sanitizeContent with the number of characters kept as a parameter, so that
\* the cut can be made to happen on short texts
sanitizeContentTo(c, limit) ==
    FirstChars(ReplaceAll(SpacesPattern, ReplaceAll(TagPattern, c, <<" ">>, 0), <<" ">>, 0),
               limit)

sanitizeContent(c) == sanitizeContentTo(c, ContentLimit)

\* removeExclusions: each exclusion pattern in turn, String.replace without g
RECURSIVE removeExclusionsFrom(_, _)
removeExclusionsFrom(processed, k) ==
    IF k > Len(exclusionPatterns) THEN processed
    ELSE removeExclusionsFrom(ReplaceFirst(exclusionPatterns[k], processed), k + 1)

removeExclusions(c) == removeExclusionsFrom(c, 1)

RECURSIVE TrimLeft(_)
TrimLeft(s) == IF s # <<>> /\ Head(s) \in Space THEN TrimLeft(Tail(s)) ELSE s
RECURSIVE TrimRight(_)
TrimRight(s) ==
    IF s # <<>> /\ s[Len(s)] \in Space THEN TrimRight(SubSeq(s, 1, Len(s) - 1)) ELSE s
Trim(s) == TrimRight(TrimLeft(s))

KeepWordOrHyphen(c) == c \in WordChar \cup {"-"}

\* normalizeReference: trim, upper-case, drop what /[^\w\-]/g matches
normalizeReference(reference) ==
    SelectSeq(toUpperCase(Trim(reference)), KeepWordOrHyphen)

\* validateReference with the minimum-length test left out
validationErrorsNoMinLength(reference) ==
    (IF Len(reference) > maxLength THEN {"Reference too long"} ELSE {})
    \cup (IF mustContainNumbers /\ ~(\E k \in 1..Len(reference) : reference[k] \in Digit)
          THEN {"Reference must contain numbers"} ELSE {})
    \cup (IF \E k \in 1..Len(bannedPrefixes) : StartsWith(reference, bannedPrefixes[k])
          THEN {"Invalid prefix"} ELSE {})

\* validateReference: the set of errors; isValid is errors.length === 0
validationErrors(reference) ==
    (IF Len(reference) < minLength THEN {"Reference too short"} ELSE {})
    \cup (IF Len(reference) > maxLength THEN {"Reference too long"} ELSE {})
    \cup (IF mustContainNumbers /\ ~(\E k \in 1..Len(reference) : reference[k] \in Digit)
          THEN {"Reference must contain numbers"} ELSE {})
    \cup (IF \E k \in 1..Len(bannedPrefixes) : StartsWith(reference, bannedPrefixes[k])
          THEN {"Invalid prefix"} ELSE {})

validateReference(reference) == validationErrors(reference) = {}

Max(a, b) == IF a > b THEN a ELSE b
Min(a, b) == IF a < b THEN a ELSE b

\* calculateConfidence with the boost left uncapped
calculateConfidenceNoCap(patternIndex, matchedText) ==
    LET base == 100 - patternIndex * 10
        lower == toLowerCase(matchedText)
        boosted == IF \/ Includes(lower, <<"l","o","a","d">>)
                      \/ Includes(lower, <<"q","u","o","t","e">>)
                      \/ Includes(lower, <<"r","e","f","e","r","e","n","c","e">>)
                   THEN base + 20 ELSE base
    IN  IF patternIndex >= Len(loadPatterns) - 2 THEN Max(50, boosted - 30) ELSE boosted

\* calculateConfidence(patternIndex, matchedText, originalContent)
calculateConfidence(patternIndex, matchedText) ==
    LET base == 100 - patternIndex * 10
        lower == toLowerCase(matchedText)
        boosted == IF \/ Includes(lower, <<"l","o","a","d">>)
                      \/ Includes(lower, <<"q","u","o","t","e">>)
                      \/ Includes(lower, <<"r","e","f","e","r","e","n","c","e">>)
                   THEN Min(100, base + 20) ELSE base
    IN  IF patternIndex >= Len(loadPatterns) - 2 THEN Max(50, boosted - 30) ELSE boosted

\* a found: false result that keeps a confidence
NotFoundWithConfidence(message) ==
    [found |-> FALSE, reference |-> Null, confidence |-> 50, matchedPattern |-> -1,
     message |-> message]

NotFound(message) ==
    [found |-> FALSE, reference |-> Null, confidence |-> 0, matchedPattern |-> -1,
     message |-> message]

\* the loops with no second chance: the first match that fails validation ends
\* the search
RECURSIVE firstValidOrGiveUp(_, _, _, _)
firstValidOrGiveUp(san, i, ms, j) ==
    IF i >= Len(loadPatterns) THEN [found |-> FALSE, i |-> -1, m |-> NoMatch, candidate |-> <<>>]
    ELSE IF j > Len(ms)
         THEN firstValidOrGiveUp(san, i + 1,
                                 IF i + 1 < Len(loadPatterns)
                                 THEN MatchAll(loadPatterns[i + 2], san, 0) ELSE <<>>, 1)
         ELSE IF ms[j].ce > ms[j].cs
                 /\ validateReference(normalizeReference(Slice(san, ms[j].cs, ms[j].ce)))
              THEN [found |-> TRUE, i |-> i, m |-> ms[j],
                    candidate |-> normalizeReference(Slice(san, ms[j].cs, ms[j].ce))]
              ELSE [found |-> FALSE, i |-> -1, m |-> NoMatch, candidate |-> <<>>]

\* the loops of extractLoadReference over the patterns (i, 0-based) and over
\* the matches ms[j..] of pattern i: the first valid candidate
RECURSIVE firstValid(_, _, _, _)
firstValid(san, i, ms, j) ==
    IF i >= Len(loadPatterns) THEN [found |-> FALSE, i |-> -1, m |-> NoMatch, candidate |-> <<>>]
    ELSE IF j > Len(ms)
         THEN firstValid(san, i + 1,
                         IF i + 1 < Len(loadPatterns)
                         THEN MatchAll(loadPatterns[i + 2], san, 0) ELSE <<>>, 1)
         ELSE LET m == ms[j]
                  candidate == normalizeReference(Slice(san, m.cs, m.ce))
              IN  IF m.ce > m.cs /\ validateReference(candidate)
                  THEN [found |-> TRUE, i |-> i, m |-> m, candidate |-> candidate]
                  ELSE firstValid(san, i, ms, j + 1)

searchReference(san) == firstValid(san, 0, MatchAll(loadPatterns[1], san, 0), 1)

\* lines 84-99: what is returned for the outcome r of the search
extractionResult(san, r) ==
    IF r.found
    THEN [found |-> TRUE, reference |-> Str(r.candidate),
          confidence |-> calculateConfidence(r.i, Slice(san, r.m.start, r.m.end)),
          matchedPattern |-> r.i,
          message |-> "Load reference successfully extracted"]
    ELSE NotFound("No valid load reference found in email")

extractFromProcessed(san) == extractionResult(san, searchReference(san))

extractLoadReference(emailContent) ==
    IF ~Truthy(emailContent) \/ emailContent.k # "string"
    THEN NotFound("No email content provided")
    ELSE extractFromProcessed(removeExclusions(sanitizeContent(emailContent.v)))

\* extractLoadReference with sanitizeContent keeping `limit` characters
extractLoadReferenceTo(emailContent, limit) ==
    IF ~Truthy(emailContent) \/ emailContent.k # "string"
    THEN NotFound("No email content provided")
    ELSE extractFromProcessed(removeExclusions(sanitizeContentTo(emailContent.v, limit)))

(***************************************************************************)
(* ResponseFormatter (zapier-modules/formatters/response-formatter.js)     *)
(*                                                                         *)
(* A body is a sequence of segments: literal template text, a placeholder  *)
(* still to be replaced, or a value put in its place.                      *)
(***************************************************************************)
L(text) == [t |-> "lit", s |-> text, v |-> <<>>]
P(name) == [t |-> "ph", s |-> name, v |-> <<>>]
V(chars) == [t |-> "val", s |-> "", v |-> chars]

\* `${x}` and the conversion String.replace applies to its replacement
ToStr(x) ==
    CASE x.k = "string" -> x.v
      [] x.k = "undefined" -> <<"u","n","d","e","f","i","n","e","d">>
      [] x.k = "null" -> <<"n","u","l","l">>
      [] OTHER -> <<"[","o","b","j","e","c","t","]">>

\* body.replace('{{NAME}}', value): the first occurrence only
RECURSIVE replacePlaceholder(_, _, _)
replacePlaceholder(body, name, value) ==
    IF body = <<>> THEN <<>>
    ELSE IF Head(body) = P(name) THEN <<V(ToStr(value))>> \o Tail(body)
         ELSE <<Head(body)>> \o replacePlaceholder(Tail(body), name, value)

getDefaultLoadFoundTemplate == <<
    L("Hello,\n\nThank you for your inquiry about load "), P("LOAD_REFERENCE"),
    L(". Here are the complete details:\n\nLOAD INFORMATION:\n* Reference: "),
    P("LOAD_REFERENCE"),
    L("\n* Equipment: "), P("EQUIPMENT"), L("\n* Commodity: "), P("COMMODITY"),
    L("\n* Weight: "), P("WEIGHT"), L("\n* Distance: "), P("DISTANCE"), P("SPECIAL_NOTES"),
    L("\n\nPICKUP:\n* Location: "), P("PICKUP_LOCATION"), L("\n* Date: "), P("PICKUP_DATE"),
    L("\n\nDELIVERY:\n* Location: "), P("DELIVERY_LOCATION"), L("\n* Date: "),
    P("DELIVERY_DATE"), L("\n\nRATE: "), P("RATE"),
    L("\n\nCAPACITY CONFIRMATION:\nTo confirm availability, please let us know:\n1. When and where will you be empty for pickup?\n2. Do you have the required equipment type available?\n3. Any special requirements or concerns about this load?\n\nWe're ready to book this load immediately upon your confirmation.\n\n") >>

getDefaultLoadPendingTemplate == <<
    L("Hello,\n\nThank you for your inquiry regarding load "), P("LOAD_REFERENCE"),
    L(".\n\nI've located this load in our system and am pulling the complete details now. You'll receive:\n* Pickup and delivery locations with dates\n* Commodity information and weight\n* Our competitive rate\n* Any special requirements\n\nThis information will be sent within the next few minutes.\n\nQUICK QUESTION: When and where will you be empty for pickup?\n\n") >>

getDefaultNoReferenceTemplate == <<
    L("Hello,\n\nThank you for reaching out about this load opportunity.\n\nTo provide you with accurate pricing and availability, could you please provide one of the following:\n* DAT load reference number\n* QuoteFactory load ID\n* Your internal load/order number\n\nThis will help us: ...\n\nOnce you provide the reference number, we'll get back to you immediately with our availability and rate.\n\n") >>

getDefaultErrorTemplate == <<
    L("Hello,\n\nThank you for your email. We experienced a temporary issue while "),
    P("ERROR_TYPE"),
    L(".\n\nOur team has been notified and we're working to resolve this quickly. In the meantime, please feel free to:\n* Reply with your load reference number\n* Call us directly at your convenience\n* Send any additional load details you have\n\nWe apologize for any inconvenience and look forward to assisting you with this load opportunity.\n\n") >>

getDefaultSignature == <<
    L("Best regards,\n"), L("companyName"),
    L("\n\n---\nThis is an automated response with real-time load data.\nFor immediate assistance, please reply to this email.") >>

TBD == Str(<<"T","B","D">>)
OrTBD(x) == IF Truthy(x) THEN x ELSE TBD

ReplyPrefix == Pattern(<<Alt(<< <<"r","e",":">>, <<"f","w","d",":">>, <<"f","w",":">> >>),
                         Star(Space)>>, 0, 0)

\* subject.replace(/^(re:|fwd:|fw:)\s*/gi, ''): ^ holds at offset 0 only
AfterMatch(subject, m) == IF m.ok THEN Slice(subject, m.end, Len(subject)) ELSE subject
stripReplyPrefix(subject) == AfterMatch(subject, Run(ReplyPrefix, 1, subject, 0))

\* lines 155-160 without the test for a reference that is already there
withReferenceAlways(subject, loadReference) ==
    <<"R","e",":"," ">>
    \o (IF Truthy(loadReference)
        THEN subject \o <<" ","-"," ","L","o","a","d"," ">> \o ToStr(loadReference)
        ELSE subject)

\* lines 155-160 of formatSubject
withReference(subject, loadReference) ==
    <<"R","e",":"," ">>
    \o (IF Truthy(loadReference) /\ ~Includes(subject, loadReference.v)
        THEN subject \o <<" ","-"," ","L","o","a","d"," ">> \o ToStr(loadReference)
        ELSE subject)

\* formatSubject(originalSubject, loadReference), called with a string or
\* undefined subject and a string or undefined reference
formatSubject(originalSubject, loadReference) ==
    IF ~Truthy(originalSubject)
    THEN IF Truthy(loadReference)
         THEN <<"L","o","a","d"," ">> \o ToStr(loadReference)
              \o <<" ","-"," ","Q","u","o","t","e"," ","D","e","t","a","i","l","s">>
         ELSE <<"L","o","a","d"," ","I","n","q","u","i","r","y"," ",
                "R","e","s","p","o","n","s","e">>
    ELSE withReference(Trim(stripReplyPrefix(originalSubject.v)), loadReference)

\* isCompleteData(loadData)
isCompleteData(loadData) ==
    \A field \in {loadData.pickup.location, loadData.delivery.location,
                  loadData.commodity.weight, loadData.rate.amount} :
        Truthy(field) /\ field # TBD

\* load records as transformLoadData builds them: one complete, one with the
\* optional fields missing and hazmat set; NoLoad is the value null
CompleteLoad ==
    [k |-> "record",
     pickup |-> [location |-> Str(<<"A",","," ","T","X">>), date |-> Str(<<"1","/","2">>)],
     delivery |-> [location |-> Str(<<"B",","," ","O","K">>), date |-> Str(<<"1","/","3">>)],
     commodity |-> [description |-> Str(<<"S","t","e","e","l">>),
                    weight |-> Str(<<"9","0","0"," ","l","b","s">>), hazmat |-> FALSE],
     rate |-> [amount |-> NonString, formatted |-> Str(<<"$","1",",","2","5","0",".","0","0">>)],
     equipment |-> Str(<<"D","r","y"," ","V","a","n">>),
     distance |-> Str(<<"2","0","0">>)]
PartialLoad ==
    [k |-> "record",
     pickup |-> [location |-> TBD, date |-> Undefined],
     delivery |-> [location |-> TBD, date |-> Undefined],
     commodity |-> [description |-> Str(<<"G","e","n","e","r","a","l">>),
                    weight |-> TBD, hazmat |-> TRUE],
     rate |-> [amount |-> Undefined, formatted |-> TBD],
     equipment |-> Str(<<"D","r","y"," ","V","a","n">>),
     distance |-> Undefined]
NoLoad == [PartialLoad EXCEPT !.k = "null"]
LoadRecords == {CompleteLoad, PartialLoad}
\* a load record without pickup, delivery, commodity and rate: the object {}
EmptyLoad == [PartialLoad EXCEPT !.k = "empty"]

Response(subject, body, scenario, hasCompleteData) ==
    [subject |-> subject, body |-> body, scenario |-> scenario,
     hasCompleteData |-> hasCompleteData]

formatLoadFoundResponse(data) ==
    LET ld == data.loadData
        b1 == replacePlaceholder(getDefaultLoadFoundTemplate, "LOAD_REFERENCE", data.loadReference)
        b2 == replacePlaceholder(b1, "PICKUP_LOCATION", ld.pickup.location)
        b3 == replacePlaceholder(b2, "PICKUP_DATE", OrTBD(ld.pickup.date))
        b4 == replacePlaceholder(b3, "DELIVERY_LOCATION", ld.delivery.location)
        b5 == replacePlaceholder(b4, "DELIVERY_DATE", OrTBD(ld.delivery.date))
        b6 == replacePlaceholder(b5, "COMMODITY", ld.commodity.description)
        b7 == replacePlaceholder(b6, "WEIGHT", ld.commodity.weight)
        b8 == replacePlaceholder(b7, "EQUIPMENT", ld.equipment)
        b9 == replacePlaceholder(b8, "RATE", ld.rate.formatted)
        b10 == replacePlaceholder(b9, "DISTANCE", OrTBD(ld.distance))
        b11 == replacePlaceholder(b10, "SPECIAL_NOTES",
                   IF ld.commodity.hazmat
                   THEN Str(<<"\n","H","A","Z","M","A","T">>) ELSE Str(<<>>))
    IN  Response(formatSubject(data.originalSubject, data.loadReference),
                 b11 \o getDefaultSignature, "load_found", isCompleteData(ld))

formatLoadPendingResponse(data) ==
    Response(formatSubject(data.originalSubject, data.loadReference),
             replacePlaceholder(getDefaultLoadPendingTemplate, "LOAD_REFERENCE",
                                data.loadReference) \o getDefaultSignature,
             "load_pending", FALSE)

formatNoReferenceResponse(data) ==
    Response(<<"R","e",":"," ">> \o ToStr(data.originalSubject)
             \o <<" ","-"," ","R","e","f","e","r","e","n","c","e"," ",
                  "N","u","m","b","e","r"," ","N","e","e","d","e","d">>,
             getDefaultNoReferenceTemplate \o getDefaultSignature, "no_reference", FALSE)

formatErrorResponse(data) ==
    Response(<<"R","e",":"," ">> \o ToStr(data.originalSubject),
             replacePlaceholder(getDefaultErrorTemplate, "ERROR_TYPE",
                 IF Truthy(data.errorType) THEN data.errorType
                 ELSE Str(<<"p","r","o","c","e","s","s","i","n","g"," ","y","o","u","r"," ",
                            "r","e","q","u","e","s","t">>))
             \o getDefaultSignature, "error", FALSE)

FormatData(loadData, loadReference, originalSubject, errorType) ==
    [loadData |-> loadData, loadReference |-> loadReference,
     originalSubject |-> originalSubject, errorType |-> errorType]

\* formatResponse(scenario, data) for the four scenarios the callers pass
formatResponse(scenario, data) ==
    CASE scenario = "load_found" -> formatLoadFoundResponse(data)
      [] scenario = "load_pending" -> formatLoadPendingResponse(data)
      [] scenario = "no_reference" -> formatNoReferenceResponse(data)
      [] scenario = "error" -> formatErrorResponse(data)

Scenarios == {"load_found", "load_pending", "no_reference", "error"}

\* does formatResponse(scenario, data) throw: the Error of line 32 for a
\* scenario without a formatter, and the TypeError of line 49 when loadData is
\* null (loadData.pickup) or has no pickup (loadData.pickup.location)
formatResponseThrows(scenario, data) ==
    \/ scenario \notin Scenarios
    \/ scenario = "load_found" /\ data.loadData.k # "record"

(***************************************************************************)
(* LoadAutomationService.processEmail                                      *)
(* (zapier-modules/core/load-automation-service.js)                        *)
(***************************************************************************)
\* emailData: null, undefined, or an object with subject and body
Email(subject, body) == [k |-> "object", subject |-> subject, body |-> body]
NullEmail == [k |-> "null", subject |-> Undefined, body |-> Undefined]
UndefinedEmail == [k |-> "undefined", subject |-> Undefined, body |-> Undefined]

\* what the awaited quoteFactoryAPI.searchLoad(loadReference) does: it returns
\* a record, returns null, or throws
\* (message is error.message of what it threw)
Found(record) == [kind |-> "record", data |-> record, message |-> <<>>]
ReturnedNull == [kind |-> "null", data |-> NoLoad, message |-> <<>>]
ThrewWith(message) == [kind |-> "throw", data |-> NoLoad, message |-> message]
Threw == ThrewWith(<<"H","T","T","P"," ","5","0","0">>)
NotCalled == [kind |-> "none", data |-> NoLoad, message |-> <<>>]
ErrorMessages == {<<"H","T","T","P"," ","5","0","0">>,
                  <<"A","u","t","h","0",":"," ","b","a","d"," ","s","e","c","r","e","t">>}
LookupOutcomes ==
    {Found(r) : r \in LoadRecords} \cup {ReturnedNull}
    \cup {ThrewWith(message) : message \in ErrorMessages}

RetrievingLoadDetails ==
    Str(<<"r","e","t","r","i","e","v","i","n","g"," ","l","o","a","d"," ",
          "d","e","t","a","i","l","s">>)
ProcessingYourEmail ==
    Str(<<"p","r","o","c","e","s","s","i","n","g"," ","y","o","u","r"," ","e","m","a","i","l">>)

\* Step 3 of processEmail (lines 92-109): the response for a found reference
\* once the lookup is over; loadData and lookupError as lines 72-90 leave them
lookupResponse(email, ext, outcome) ==
    IF outcome.kind = "record"
    THEN formatResponse("load_found",
             FormatData(outcome.data, ext.reference, email.subject, Undefined))
    ELSE IF outcome.kind = "throw"
         THEN formatResponse("error",
                  FormatData(NoLoad, Undefined, email.subject, RetrievingLoadDetails))
         ELSE formatResponse("load_pending",
                  FormatData(NoLoad, ext.reference, email.subject, Undefined))

\* Line 120 reads the identifier loadData, which line 72 declares with `let`
\* inside the else block of lines 67-110; at line 120 that block is closed and
\* no other loadData is declared in the function or the module, so the read
\* throws a ReferenceError on every path that reaches it.
loadDataInScopeAtLine120 == FALSE

Result(success, hasExtraction, ext, loadData, response, m) ==
    [success |-> success, hasExtraction |-> hasExtraction, extraction |-> ext,
     loadData |-> loadData, response |-> response, metrics |-> m]

\* lines 112-154 with the message of the lookup's error put into the reply
finishRequestLeaky(email, ext, outcome, response, m) ==
    LET m2 == [m EXCEPT !.errors = @ + 1]
    IN  [metrics |-> m2,
         result |-> Result(FALSE, FALSE, NotFound(""), NoLoad,
                           formatResponse("error",
                               FormatData(NoLoad, Undefined, email.subject,
                                          IF outcome.kind = "throw"
                                          THEN Str(outcome.message)
                                          ELSE ProcessingYourEmail)),
                           m2)]

\* lines 112-154: the result object is built; a throw inside the try block is
\* caught, counted in metrics.errors and answered with the 'error' response
finishRequest(email, ext, outcome, response, m) ==
    IF loadDataInScopeAtLine120
    THEN [metrics |-> m,
          result |-> Result(TRUE, TRUE, ext, outcome.data, response, m)]
    ELSE LET m2 == [m EXCEPT !.errors = @ + 1]
         IN  [metrics |-> m2,
              result |-> Result(FALSE, FALSE, NotFound(""), NoLoad,
                                formatResponse("error",
                                    FormatData(NoLoad, Undefined, email.subject,
                                               ProcessingYourEmail)),
                                m2)]

(***************************************************************************)
(* The Zapier code step "Lookup Load Details"                              *)
(* (zapier-modules/zapier-code-steps/lookup-load-details.js)               *)
(***************************************************************************)
requiredEnvVars == {"AUTH0_DOMAIN", "AUTH0_CLIENT_ID", "AUTH0_CLIENT_SECRET",
                    "QUOTEFACTORY_USERNAME", "QUOTEFACTORY_PASSWORD"}

\* the embedded QuoteFactoryAPI.searchLoad (lines 85-120): getUserToken throws
\* when Auth0 does not answer OK, the search throws on a non-OK answer, the
\* first result is transformed, and no result gives null
zapSearchLoad(authOk, responseOk, results) ==
    IF ~authOk \/ ~responseOk THEN Threw
    ELSE IF results # <<>> THEN Found(results[1])
         ELSE ReturnedNull

\* Line 312 calls this.isCompleteData(loadData).  isCompleteData is a function
\* declaration of the step's own scope (lines 343-354), not a property of the
\* `this` of the step's top-level code, so the call throws a TypeError whenever
\* the conditional reaches it, that is, whenever loadData is not null.
thisHasIsCompleteData == FALSE

ZapOutput(loadData, success, attempted, hasError, scenario, complete) ==
    [load_data |-> loadData, lookup_success |-> success, lookup_attempted |-> attempted,
     has_error_message |-> hasError, scenario |-> scenario, has_complete_data |-> complete]

\* lines 286-340: the output object; a throw while it is built is caught by the
\* outer catch, which reports scenario 'error'
zapBuildOutput(loadData, success, attempted, hasError, scenario) ==
    IF loadData.k = "null"
    THEN ZapOutput(loadData, success, attempted, hasError, scenario, FALSE)
    ELSE IF thisHasIsCompleteData
         THEN ZapOutput(loadData, success, attempted, hasError, scenario,
                        isCompleteData(loadData))
         ELSE ZapOutput(NoLoad, FALSE, TRUE, TRUE, "error", FALSE)

\* lines 259-274: the lookup is over
zapAfterLookup(outcome) ==
    CASE outcome.kind = "record" -> zapBuildOutput(outcome.data, TRUE, TRUE, FALSE, "load_found")
      [] outcome.kind = "null" -> zapBuildOutput(NoLoad, FALSE, TRUE, FALSE, "load_pending")
      [] outcome.kind = "throw" -> zapBuildOutput(NoLoad, FALSE, TRUE, TRUE, "error")

(***************************************************************************)
(* The serverless webhook (api/webhook.js)                                 *)
(***************************************************************************)
webExclusionPatterns == SubSeq(exclusionPatterns, 1, 5)

webPatterns == <<
    Pattern(<<Lit(<<"o","r","d","e","r">>), Star(Space), Opt(Hash), Star(Space),
              Rep(Digit, 6, 8)>>, 5, 5),
    Pattern(<<Lit(<<"r","e","f","e","r","e","n","c","e">>), Plus(Space),
              Lit(<<"n","u","m","b","e","r">>), Plus(Space), Rep(Digit, 6, 8)>>, 5, 5),
    Pattern(<<Lit(<<"r","e","f">>), Plus(Colon \cup Space), Rep(Digit, 6, 8)>>, 3, 3),
    Pattern(<<WB, Rep(Digit, 6, 6), WB>>, 2, 2),
    loadPatterns[1],
    Pattern(<<Rep(CI(UpperSet), 2, 4), Star(Sep), Rep(Digit, 3, 8), Star(Sep),
              Star(CI(UpperSet \cup Digit))>>, 1, 5),
    loadPatterns[9] >>

RECURSIVE webRemoveExclusions(_, _)
webRemoveExclusions(emailBody, k) ==
    IF k > Len(webExclusionPatterns) THEN emailBody
    ELSE webRemoveExclusions(ReplaceFirst(webExclusionPatterns[k], emailBody), k + 1)

RECURSIVE webFirstValid(_, _)
webFirstValid(emailBody, i) ==
    IF i > Len(webPatterns) THEN Null
    ELSE LET m == Exec(webPatterns[i], emailBody, 0)
             cleanMatch == SelectSeq(Trim(Slice(emailBody, m.cs, m.ce)), KeepWordOrHyphen)
         IN  IF /\ m.ok /\ m.ce > m.cs
                /\ Len(cleanMatch) >= 4
                /\ ~StartsWith(toUpperCase(cleanMatch), <<"M","C">>)
                /\ ~StartsWith(toUpperCase(cleanMatch), <<"D","O","T">>)
             THEN Str(cleanMatch)
             ELSE webFirstValid(emailBody, i + 1)

\* LoadAutomationEnhanced.extractLoadReference(emailBody), for a string
webExtractLoadReference(emailBody) == webFirstValid(webRemoveExclusions(emailBody, 1), 1)

NA == <<"N","/","A">>

\* what searchLoadInfo scraped: loadReference, pickup and delivery are "N/A" or
\* text; null when the search failed or all three are "N/A" (lines 341-352)
LoadInfo(k, loadReference, pickup, delivery) ==
    [k |-> k, loadReference |-> loadReference, pickup |-> pickup, delivery |-> delivery]
NoLoadInfo == LoadInfo("null", NA, NA, NA)
SomeText == <<"x">>
ScrapedInfos == {LoadInfo("info", r, pu, d) : r \in {NA, SomeText}, pu \in {NA, SomeText},
                                              d \in {NA, SomeText}}

webSearchResult(threw, scraped) ==
    IF threw THEN NoLoadInfo
    ELSE IF scraped.loadReference # NA \/ scraped.pickup # NA \/ scraped.delivery # NA
         THEN scraped ELSE NoLoadInfo

IssueRetrievingText == "We encountered an issue retrieving details for load reference **"
CapacityQuestionText == "When and where will you be empty for pickup?"
FallbackText == "Thank you for your email. We are processing your inquiry and will respond shortly."

\* LoadAutomationEnhanced.formatResponse(loadReference, loadInfo, subject, originalEmail)
webFormatResponse(loadReference, loadInfo, subject) ==
    IF loadInfo.k # "null" /\ loadInfo.pickup # NA
    THEN [subject |-> <<"R","e",":"," ">> \o subject,
          body |-> <<L("Hello,\n\nThank you for your inquiry about load "),
                     V(ToStr(loadReference)),
                     L(". Here are the details:\n\nLOAD DETAILS:\n"), V(loadInfo.pickup),
                     L("\n"), V(loadInfo.delivery),
                     L("\nWeight: ... Commodity: ... Rate: ...\n\nCAPACITY INQUIRY:\n"),
                     L(CapacityQuestionText),
                     L("\n\nBest regards,\nBalto Booking\n\n---\nAutomated response with live QuoteFactory data")>>]
    ELSE IF Truthy(loadReference)
         THEN [subject |-> <<"R","e",":"," ">> \o subject,
               body |-> <<L("Hello,\n\n"), L(IssueRetrievingText), V(ToStr(loadReference)),
                          L("** from QuoteFactory.\n\nPossible reasons:\n* The load number may not exist or is no longer active\n* There was a temporary system error while accessing QuoteFactory\n\nOur team has been notified and will review this manually.\n\nBest regards,\nBalto Booking\n\n---\nAutomated notification - QuoteFactory load fetch error")>>]
         ELSE [subject |-> <<"R","e",":"," ">> \o subject
                           \o <<" ","-"," ","D","A","T"," ","R","e","f","e","r","e","n","c","e"," ",
                                "N","u","m","b","e","r"," ","N","e","e","d","e","d">>,
               body |-> <<L("Hello,\n\nThank you for reaching out about this load opportunity.\n\nTo provide you with accurate pricing and availability, could you please provide the DAT load reference number or QuoteFactory load ID?\n\n...\n\nBest regards,\nBalto Booking\n\n---\nAutomated response - Please reply with DAT reference number")>>]

(***************************************************************************)
(* The Express variant: LoadAutomationEnhanced (src/unnamed/part_004)      *)
(***************************************************************************)
RefChars == CI(UpperSet \cup Digit \cup {"-"})

\* the patterns of extractLoadReference (lines 28-34); an optional group is
\* an alternation whose last word is empty.  The first three have the flag i.
expPatterns == <<
    Pattern(<<Lit(<<"l","o","a","d">>), Star(Space),
              Alt(<< <<"r","e","f","e","r","e","n","c","e">>, <<"r","e","f">>, <<"#">>, <<"n","u","m","b","e","r">>, <<"n","o">>, <<>> >>),
              Star(Space \cup Colon), Plus(RefChars)>>, 5, 5),
    Pattern(<<Lit(<<"r","e","f">>), Star(Space), Alt(<< <<"e","r","e","n","c","e">>, <<>> >>),
              Star(Space \cup Colon), Plus(RefChars)>>, 5, 5),
    Pattern(<<Lit(<<"r","e","f","e","r","e","n","c","e">>), Star(Space \cup Colon), Plus(RefChars)>>, 3, 3),
    Pattern(<<WB, Rep(UpperSet, 2, 3), Rep(Digit, 4, 6), WB>>, 2, 3),
    Pattern(<<WB, Rep(Digit, 5, 7), WB>>, 2, 2) >>

\* lines 36-42: the first pattern whose match has a non-empty group; null
\* when there is none
RECURSIVE expFirstMatch(_, _), expMatched(_, _, _)
expFirstMatch(emailBody, i) ==
    IF i > Len(expPatterns) THEN Null
    ELSE expMatched(emailBody, i, Exec(expPatterns[i], emailBody, 0))
expMatched(emailBody, i, m) ==
    IF m.ok /\ m.ce > m.cs THEN Str(Trim(Slice(emailBody, m.cs, m.ce)))
    ELSE expFirstMatch(emailBody, i + 1)

expExtractLoadReference(emailBody) == expFirstMatch(emailBody, 1)

\* the messages of the errors thrown inside processEmail's try block: its own
\* (line 171), the TypeErrors of emailBody.match on a body that is no string,
\* and what puppeteer reports
LoadReferenceNotFound == <<"L","o","a","d"," ","r","e","f","e","r","e","n","c","e"," ","n","o","t"," ","f","o","u","n","d"," ","i","n"," ","e","m","a","i","l">>
MatchIsNotAFunction == <<"e","m","a","i","l","B","o","d","y",".","m","a","t","c","h"," ","i","s"," ","n","o","t"," ","a"," ","f","u","n","c","t","i","o","n">>
CannotReadMatch == <<"C","a","n","n","o","t"," ","r","e","a","d"," ","p","r","o","p","e","r","t","i","e","s"," ","o","f"," ","u","n","d","e","f","i","n","e","d"," ","(","r","e","a","d","i","n","g"," ","'","m","a","t","c","h","'",")">>
NavigationTimeout == <<"N","a","v","i","g","a","t","i","o","n"," ","t","i","m","e","o","u","t"," ","o","f"," ","3","0","0","0","0"," ","m","s"," ","e","x","c","e","e","d","e","d">>
FailedToLaunch == <<"F","a","i","l","e","d"," ","t","o"," ","l","a","u","n","c","h"," ","t","h","e"," ","b","r","o","w","s","e","r"," ","p","r","o","c","e","s","s">>
PuppeteerMessages == {NavigationTimeout, FailedToLaunch}

ExpEmail(subject, body, from) == [subject |-> subject, body |-> body, from |-> from]

\* what page.evaluate returns in searchLoadInfo (lines 98-111), with
\* loadReference as line 178 adds it
ExpLoadInfo(loadReference, pickupLocation, equipment) ==
    [loadReference |-> loadReference, pickupLocation |-> pickupLocation,
     pickupDate |-> NA, deliveryLocation |-> NA, deliveryDate |-> NA,
     equipment |-> equipment, weight |-> NA, commodity |-> NA]

ExpResult(success, error, responseSubject, responseBody, replyTo) ==
    [success |-> success, error |-> error, responseSubject |-> responseSubject,
     responseBody |-> responseBody, replyTo |-> replyTo]

\* formatResponse (lines 117-163) and the object of line 182: always the
\* template `found`
expFormatResponse(loadInfo, originalSubject, originalFrom) ==
    ExpResult(TRUE, <<>>, <<"R","e",":"," ">> \o ToStr(originalSubject),
              <<L("Hello,\n\nThank you for your inquiry about load reference "),
                V(loadInfo.loadReference),
                L(".\n\nLoad Details:\n- Pickup: "), V(loadInfo.pickupLocation),
                L(" on "), V(loadInfo.pickupDate),
                L("\n- Delivery: "), V(loadInfo.deliveryLocation),
                L(" on "), V(loadInfo.deliveryDate),
                L("\n- Equipment: "), V(loadInfo.equipment),
                L("\n- Weight: "), V(loadInfo.weight),
                L("\n- Commodity: "), V(loadInfo.commodity),
                L("\n\nWe'll process your quote request and get back to you shortly.\n\nBest regards,\nHarness to Go Team")>>,
              originalFrom)

\* the catch block, lines 188-196
expCatch(emailData, message) ==
    ExpResult(FALSE, message, <<"R","e",":"," ">> \o ToStr(emailData.subject),
              <<L("We encountered an issue: "), V(message)>>, emailData.from)

\* what an awaited call of processEmail does: it returns, or throws an error
ExpOk == [kind |-> "ok", message |-> <<>>]
ExpThrew(message) == [kind |-> "throw", message |-> message]
ExpOutcomes == {ExpOk} \cup {ExpThrew(message) : message \in PuppeteerMessages}

(***************************************************************************)
(* Inputs of the parser: strings put together from at most MaxTokens words  *)
(***************************************************************************)
MaxTokens == 3

Tokens == { <<"l","o","a","d"," ","#">>,
            <<"U","S","D","O","T">>,
            <<"-","1","2","3","4">>,
            <<"_">>,
            <<"M","C"," ">>,
            <<"M","C"," ","1","2"," ">>,
            <<"1","2","3","4","5","6">>,
            <<"1","2","3","4","5","6","7","8","9","0","1">>,
            <<"a","b">>,
            <<"1","2">>,
            <<"<","b",">"," ">> }

RECURSIVE Concat(_)
Concat(ts) == IF ts = <<>> THEN <<>> ELSE Head(ts) \o Concat(Tail(ts))

Texts == {Concat(ts) : ts \in UNION {[1..n -> Tokens] : n \in 0..MaxTokens}}

ParserInputs == {Str(t) : t \in Texts} \cup {Null, Undefined, NonString}

(***************************************************************************)
(* Initial states                                                          *)
(***************************************************************************)
ParserOff == content = Null /\ extraction = NotFound("") /\ ppc = "off"

ParserInit ==
    /\ content \in ParserInputs
    /\ extraction = NotFound("")
    /\ ppc = "call"

NumRequests == 2
Requests == 1..NumRequests

ZeroMetrics == [processedEmails |-> 0, successfulExtractions |-> 0,
                successfulLookups |-> 0, errors |-> 0]
NoResponse == Response(<<>>, <<>>, "none", FALSE)
NoResult == Result(FALSE, FALSE, NotFound(""), NoLoad, NoResponse, ZeroMetrics)
IdleRequest == [pc |-> "idle", email |-> UndefinedEmail, extraction |-> NotFound(""),
                outcome |-> NotCalled, result |-> NoResult]

ServiceOff ==
    /\ enableQuoteFactoryLookup = TRUE
    /\ metrics = ZeroMetrics
    /\ req = [p \in Requests |-> IdleRequest]

\* the state after the constructor (lines 12-33); enableQuoteFactoryLookup is
\* config.enableQuoteFactoryLookup !== false (line 237)
ServiceInit ==
    /\ enableQuoteFactoryLookup \in BOOLEAN
    /\ metrics = ZeroMetrics
    /\ req = [p \in Requests |-> IdleRequest]

ServiceEmails ==
    {NullEmail, UndefinedEmail, Email(Undefined, Undefined),
     Email(Str(<<"h","i">>), Str(<<"l","o","a","d"," ","#","1","2","1","2">>)),
     Email(Str(<<"R","e",":"," ","h","i">>), Str(<<"a","b">>)),
     Email(Str(<<"l","o","a","d"," ","#","1","2","1","2">>), Str(<<"a","b">>))}

NoZapOutput == ZapOutput(NoLoad, FALSE, FALSE, FALSE, "none", FALSE)
ZapOff == zap = [pc |-> "off", found |-> FALSE, load_reference |-> Undefined, env |-> {},
                 outcome |-> NotCalled, output |-> NoZapOutput]

\* inputData.found, inputData.load_reference and process.env when the step starts
ZapInit ==
    \E found \in BOOLEAN, ref \in {Undefined, Str(<<"3","0","2","7","3","4">>)},
       env \in SUBSET requiredEnvVars :
        zap = [pc |-> "start", found |-> found, load_reference |-> ref, env |-> env,
               outcome |-> NotCalled, output |-> NoZapOutput]

\* req.body: undefined, or an object with JSON, subject, bodyPreview, body.content
WebBody(k, json, subject, bodyPreview, bodyContent) ==
    [k |-> k, JSON |-> json, subject |-> subject, bodyPreview |-> bodyPreview,
     content |-> bodyContent]
NoWebBody == WebBody("undefined", Undefined, Undefined, Undefined, Undefined)
WebBodies ==
    {NoWebBody}
    \cup {WebBody("object", j, sj, bp, Undefined) :
            j \in {Undefined, Str(<<"o","r","d","e","r"," ","#","3","0","2","7","3","4">>),
                   Str(<<"h","e","l","l","o">>), NonString},
            sj \in {Undefined, Str(<<"h","i">>)},
            bp \in {Undefined, Str(<<"r","e","f",":"," ","1","2","3","4","5","6">>), NonString}}
    \cup {WebBody("object", Undefined, Undefined, Undefined,
                  Str(<<"M","C"," ","1","2","3","4","5","6">>))}

WebStart(method, body, user, pass, token, serverless) ==
    [pc |-> "start", method |-> method, body |-> body,
     QF_USERNAME |-> user, QF_PASSWORD |-> pass,
     BROWSERLESS_TOKEN |-> token, isServerless |-> serverless,
     subject |-> <<>>, loadReference |-> Null, loadInfo |-> NoLoadInfo,
     hasCredentials |-> FALSE, browserReady |-> FALSE, loginSuccess |-> FALSE,
     browser |-> "none", page |-> "none", threw |-> FALSE,
     calls |-> [initialize |-> 0, loginToQuoteFactory |-> 0, searchLoadInfo |-> 0,
                cleanup |-> 0],
     sent |-> <<>>]

WebOff == web = [WebStart("POST", NoWebBody, FALSE, FALSE, FALSE, FALSE) EXCEPT !.pc = "off"]

\* one request arrives: req.method, req.body, and the credentials in process.env
WebInit ==
    \E method \in {"POST", "GET"}, body \in WebBodies, user \in BOOLEAN, pass \in BOOLEAN,
       token \in BOOLEAN, serverless \in BOOLEAN :
        web = WebStart(method, body, user, pass, token, serverless)

FmtOff == fmt = [pc |-> "off"]

\* the arguments of formatResponse: a scenario (one of them unknown to the
\* formatter) and a data bundle
FmtScenarios == Scenarios \cup {"unknown"}
FmtReference == Str(<<"3","0","2","7">>)
FmtSubjects ==
    {Undefined,
     Str(<<"h","i">>),
     Str(<<"R","e",":"," ","h","i">>),
     Str(<<"R","e",":">>),
     Str(<<"F","W","D",":"," ","3","0","2","7"," ","3","0","2","7">>),
     Str(<<"r","e",":"," ","R","e",":"," ","h","i">>)}
FmtData ==
    {FormatData(ld, ref, sj, et) :
        ld \in {CompleteLoad, PartialLoad, EmptyLoad, NoLoad},
        ref \in {Undefined, FmtReference},
        sj \in FmtSubjects,
        et \in {Undefined, RetrievingLoadDetails}}

FmtInit ==
    \E scenario \in FmtScenarios, data \in FmtData :
        fmt = [pc |-> "call", scenario |-> scenario, data |-> data,
               response |-> NoResponse, subjects |-> 0, subject1 |-> <<>>,
               subject2 |-> <<>>]
TruncOff == trunc = [pc |-> "off"]

\* the number of characters sanitizeContent keeps, scaled down from
\* ContentLimit so that texts of a few words reach it
TruncLimit == 8
Pad(ch, n) == [k \in 1..n |-> ch]
\* beginnings of exactly TruncLimit characters: one tag, plain text, and text
\* with a run of spaces
TruncHeads == { <<"<">> \o Pad("a", TruncLimit - 2) \o <<">">>,
                Pad("a", TruncLimit),
                <<"a","b">> \o Pad(" ", TruncLimit - 2) }
TruncTails == Tokens \cup {<<>>}

\* two inputs with the same first TruncLimit characters
TruncInit ==
    \E h \in TruncHeads, ta \in TruncTails, tb \in TruncTails :
        trunc = [pc |-> "call", a |-> Str(h \o ta), b |-> Str(h \o tb),
                 ra |-> NotFound(""), rb |-> NotFound(""), done |-> {}]
ExpOff == exp = [pc |-> "off"]

\* Date values, in seconds: a date, Invalid Date (of a NaN), or null
Num(n) == [k |-> "number", v |-> n]
DateAt(t) == [k |-> "date", t |-> t]
InvalidDate == [k |-> "invalid", t |-> 0]
NoDate == [k |-> "null", t |-> 0]

\* the clock: MaxNow ticks of Tick seconds
Tick == 100
MaxNow == 3

\* the answer to a search request: fetch rejects, or a response with a status
\* and a body
ApiAnswer(k, status, body) == [k |-> k, status |-> status, body |-> body]
NoApiBody == [k |-> "none", results |-> Undefined]
NoAnswer == ApiAnswer("none", 0, NoApiBody)

\* what searchLoad returned or threw
ApiReturned(data) ==
    [kind |-> IF data.k = "null" THEN "null" ELSE "record", data |-> data, message |-> ""]
ApiThrew(message) ==
    [kind |-> "throw", data |-> [k |-> "null", loadReference |-> Undefined, status |-> Undefined],
     message |-> message]
ApiNotCalled == [ApiThrew("") EXCEPT !.kind = "none"]

\* quotefactory-api.js lines 7-15: the object after the constructor
ApiStart ==
    [pc |-> "idle", now |-> 0, sessionToken |-> Null, sessionExpiry |-> NoDate,
     calls |-> 0, authRequests |-> 0, callAuths |-> 0, searchRequests |-> 0,
     lastAuth |-> "none", lastAnswer |-> NoAnswer, result |-> ApiNotCalled]
ApiOff == api = [ApiStart EXCEPT !.pc = "off"]
ApiInit == api = ApiStart

\* the callers of getAccessToken on one Auth0Client
NumCallers == 2
Callers == 1..NumCallers
NoToken == [kind |-> "none", token |-> Undefined, at |-> 0, fetchedAt |-> 0,
            expires_in |-> Undefined]

\* auth0-client.js lines 7-14: the object after the constructor; fetchedAt and
\* expires_in are those of the response that tokenCache came with
Auth0Start ==
    [on |-> TRUE, now |-> 0, tokenCache |-> Null, tokenExpiry |-> NoDate,
     fetchedAt |-> 0, expires_in |-> Undefined, calls |-> 0, failed |-> FALSE,
     pc |-> [c \in Callers |-> "idle"], returned |-> [c \in Callers |-> NoToken]]
Auth0Off == auth0 = [Auth0Start EXCEPT !.on = FALSE]
Auth0Init == auth0 = Auth0Start

\* emailData of the Express variant: the subject, a body that is a string with
\* or without a reference or no string at all, and the sender
ExpBodies == {Str(<<"l","o","a","d"," ","#","3","0","2","7","3","4">>), Str(<<"r","e","f",":"," ","A","B","1","2","3","4"," ","a","s","a","p">>), Str(<<"p","l","e","a","s","e"," ","q","u","o","t","e"," ","1","2","3","4","5">>),
              Str(<<"h","i">>), Str(<<"u","p","l","o","a","d"," ","p","l","e","a","s","e">>), Undefined, NonString}
ExpEmails ==
    {ExpEmail(subject, body, Str(<<"a">>)) :
        subject \in {Undefined, Str(<<"h","i">>), Str(<<"R","e",":"," ","h","i">>)},
        body \in ExpBodies}
ExpLoadInfos ==
    {ExpLoadInfo(<<>>, NA, NA), ExpLoadInfo(<<>>, <<"A","u","s","t","i","n",","," ","T","X">>, <<"D","r","y"," ","V","a","n">>)}
NoExpResult == ExpResult(FALSE, <<>>, <<>>, <<>>, Undefined)

\* the object after the constructor (lines 18-24) and the argument of the call
ExpInit ==
    \E emailData \in ExpEmails :
        exp = [pc |-> "call", emailData |-> emailData, loadReference |-> Null,
               browser |-> FALSE, closes |-> 0, result |-> NoExpResult]

(***************************************************************************)
(* extractLoadReference is called                                          *)
(***************************************************************************)
ParserCall ==
    /\ ppc = "call"
    /\ extraction' = extractLoadReference(content)
    /\ ppc' = "returned"
    /\ UNCHANGED <<content, notParser>>

ParserNext == ParserCall

ParserSpecInit ==
    ParserInit /\ ServiceOff /\ ZapOff /\ WebOff /\ FmtOff /\ TruncOff /\ ExpOff /\ ApiOff /\ Auth0Off
ParserSpec == ParserSpecInit /\ [][ParserNext]_vars

(***************************************************************************)
(* extractLoadReference is called on each of two inputs that agree on      *)
(* their first TruncLimit characters                                       *)
(***************************************************************************)
TruncCallA ==
    /\ trunc.pc = "call" /\ "a" \notin trunc.done
    /\ trunc' = [trunc EXCEPT !.ra = extractLoadReferenceTo(trunc.a, TruncLimit),
                               !.done = @ \cup {"a"}]
    /\ UNCHANGED notTrunc

TruncCallB ==
    /\ trunc.pc = "call" /\ "b" \notin trunc.done
    /\ trunc' = [trunc EXCEPT !.rb = extractLoadReferenceTo(trunc.b, TruncLimit),
                               !.done = @ \cup {"b"}]
    /\ UNCHANGED notTrunc

TruncationNext == TruncCallA \/ TruncCallB

TruncationSpecInit ==
    TruncInit /\ ParserOff /\ ServiceOff /\ ZapOff /\ WebOff /\ FmtOff /\ ExpOff /\ ApiOff /\ Auth0Off
TruncationSpec == TruncationSpecInit /\ [][TruncationNext]_vars

(***************************************************************************)
(* formatResponse is called; formatSubject is called, and called again on  *)
(* its own result                                                          *)
(***************************************************************************)
FmtCall ==
    /\ fmt.pc = "call"
    /\ IF formatResponseThrows(fmt.scenario, fmt.data)
       THEN fmt' = [fmt EXCEPT !.pc = "threw"]
       ELSE fmt' = [fmt EXCEPT !.pc = "returned",
                               !.response = formatResponse(fmt.scenario, fmt.data)]
    /\ UNCHANGED notFmt

FmtSubject ==
    /\ fmt.pc # "off" /\ fmt.subjects = 0
    /\ fmt' = [fmt EXCEPT !.subjects = 1,
                           !.subject1 = formatSubject(fmt.data.originalSubject,
                                                      fmt.data.loadReference)]
    /\ UNCHANGED notFmt

FmtSubjectAgain ==
    /\ fmt.pc # "off" /\ fmt.subjects = 1
    /\ fmt' = [fmt EXCEPT !.subjects = 2,
                           !.subject2 = formatSubject(Str(fmt.subject1),
                                                      fmt.data.loadReference)]
    /\ UNCHANGED notFmt

FormatterNext == FmtCall \/ FmtSubject \/ FmtSubjectAgain

FormatterSpecInit ==
    FmtInit /\ ParserOff /\ ServiceOff /\ ZapOff /\ WebOff /\ TruncOff /\ ExpOff /\ ApiOff /\ Auth0Off
FormatterSpec == FormatterSpecInit /\ [][FormatterNext]_vars

(***************************************************************************)
(* processEmail(emailData), lines 38-155.  The function runs from its call  *)
(* to its only await (line 78), and from there to its return.              *)
(***************************************************************************)
SvcReturn(p, e, ext, outcome, fin) ==
    /\ metrics' = fin.metrics
    /\ req' = [req EXCEPT ![p] = [pc |-> "returned", email |-> e, extraction |-> ext,
                                  outcome |-> outcome, result |-> fin.result]]

\* lines 66-77 (and to the end when no lookup is awaited), ext being the
\* extraction of line 52 and m1 the metrics after line 49
SvcAfterExtraction(p, e, ext, m1) ==
    IF ~ext.found
    THEN SvcReturn(p, e, ext, NotCalled,
             finishRequest(e, ext, NotCalled,
                 formatResponse("no_reference",
                     FormatData(NoLoad, Undefined, e.subject, Undefined)),
                 m1))
    ELSE IF enableQuoteFactoryLookup
         THEN /\ metrics' = [m1 EXCEPT !.successfulExtractions = @ + 1]
              /\ req' = [req EXCEPT ![p] = [@ EXCEPT !.pc = "awaiting",
                                              !.email = e, !.extraction = ext]]
         ELSE SvcReturn(p, e, ext, NotCalled,
                  finishRequest(e, ext, NotCalled, lookupResponse(e, ext, NotCalled),
                                [m1 EXCEPT !.successfulExtractions = @ + 1]))

\* lines 39-77 without the count of line 49
SvcCallUncounted(p, e) ==
    /\ req[p].pc = "idle"
    /\ IF e.k # "object"
       THEN /\ req' = [req EXCEPT ![p] = [@ EXCEPT !.pc = "rejected", !.email = e]]
            /\ UNCHANGED metrics
       ELSE SvcAfterExtraction(p, e, extractLoadReference(e.body), metrics)
    /\ UNCHANGED <<enableQuoteFactoryLookup, notService>>

\* lines 39-77
SvcCall(p, e) ==
    /\ req[p].pc = "idle"
    /\ IF e.k # "object"
       THEN \* line 42 reads emailData.subject before the try block
            /\ req' = [req EXCEPT ![p] = [@ EXCEPT !.pc = "rejected", !.email = e]]
            /\ UNCHANGED metrics
       ELSE SvcAfterExtraction(p, e, extractLoadReference(e.body),
                               [metrics EXCEPT !.processedEmails = @ + 1])
    /\ UNCHANGED <<enableQuoteFactoryLookup, notService>>

\* lines 78-154: the awaited searchLoad settles
SvcLookupSettles(p, outcome) ==
    /\ req[p].pc = "awaiting"
    /\ LET m == IF outcome.kind = "record"
                THEN [metrics EXCEPT !.successfulLookups = @ + 1] ELSE metrics
           e == req[p].email
           ext == req[p].extraction
       IN  SvcReturn(p, e, ext, outcome,
               finishRequest(e, ext, outcome, lookupResponse(e, ext, outcome), m))
    /\ UNCHANGED <<enableQuoteFactoryLookup, notService>>

ServiceNext ==
    \/ \E p \in Requests, e \in ServiceEmails : SvcCall(p, e)
    \/ \E p \in Requests, outcome \in LookupOutcomes : SvcLookupSettles(p, outcome)

ServiceSpecInit ==
    ServiceInit /\ ParserOff /\ ZapOff /\ WebOff /\ FmtOff /\ TruncOff /\ ExpOff /\ ApiOff /\ Auth0Off
ServiceSpec == ServiceSpecInit /\ [][ServiceNext]_vars

(***************************************************************************)
(* The Zapier code step, lines 194-340                                     *)
(***************************************************************************)
\* lines 194-258: up to the awaited searchLoad, or to the output without it
ZapStart ==
    /\ zap.pc = "start"
    /\ IF zap.found /\ Truthy(zap.load_reference)
       THEN IF ~(requiredEnvVars \subseteq zap.env)
            THEN zap' = [zap EXCEPT !.pc = "done",
                           !.output = zapBuildOutput(NoLoad, FALSE, FALSE, TRUE, "error")]
            ELSE zap' = [zap EXCEPT !.pc = "awaiting"]
       ELSE IF zap.found /\ Truthy(zap.load_reference)
            THEN zap' = [zap EXCEPT !.pc = "done",
                           !.output = zapBuildOutput(NoLoad, FALSE, FALSE, FALSE, "load_pending")]
            ELSE zap' = [zap EXCEPT !.pc = "done",
                           !.output = zapBuildOutput(NoLoad, FALSE, FALSE, FALSE, "no_reference")]
    /\ UNCHANGED notZap

\* lines 259-340: the awaited searchLoad settles and the output is built
ZapLookupSettles(authOk, responseOk, results) ==
    /\ zap.pc = "awaiting"
    /\ zap' = [zap EXCEPT !.pc = "done",
                 !.outcome = zapSearchLoad(authOk, responseOk, results),
                 !.output = zapAfterLookup(zapSearchLoad(authOk, responseOk, results))]
    /\ UNCHANGED notZap

ZapResults == {<<>>} \cup {<<r>> : r \in LoadRecords}

ZapierNext ==
    \/ ZapStart
    \/ \E authOk \in BOOLEAN, responseOk \in BOOLEAN, results \in ZapResults :
           ZapLookupSettles(authOk, responseOk, results)

ZapierSpecInit ==
    ZapInit /\ ParserOff /\ ServiceOff /\ WebOff /\ FmtOff /\ TruncOff /\ ExpOff /\ ApiOff /\ Auth0Off
ZapierSpec == ZapierSpecInit /\ [][ZapierNext]_vars

(***************************************************************************)
(* The webhook handler, lines 581-676, from one await to the next          *)
(***************************************************************************)
Or(a, b) == IF Truthy(a) THEN a ELSE b

WebReply(status, subject, body) == [status |-> status, subject |-> subject, body |-> body]

\* lines 582-584
MethodNotAllowed == WebReply(405, <<>>, <<>>)

\* lines 668-674: the reply of the catch block
webFallbackReplyNoBody == WebReply(200, <<"R","e",":"," ","L","o","a","d"," ","I","n","q","u","i","r","y">>, <<>>)
webFallbackReply ==
    WebReply(200, <<"R","e",":"," ","L","o","a","d"," ","I","n","q","u","i","r","y">>,
             <<L(FallbackText)>>)

\* cleanup(), lines 89-97: page.close() and browser.close() in one try block,
\* so a throw of the first skips the second
webCleanup(w, pageCloseThrows, browserCloseThrows) ==
    LET pageClosed == w.page = "open" /\ ~pageCloseThrows
        reachedBrowser == ~(w.page = "open" /\ pageCloseThrows)
        browserClosed == reachedBrowser /\ w.browser = "open" /\ ~browserCloseThrows
    IN  [w EXCEPT !.page = IF pageClosed THEN "closed" ELSE @,
                  !.browser = IF browserClosed THEN "closed" ELSE @,
                  !.calls.cleanup = @ + 1]

\* lines 582-612: the request arrives; the handler runs to its first await or
\* to its reply
WebReceive ==
    /\ web.pc = "start"
    /\ IF web.method # "POST"
       THEN web' = [web EXCEPT !.pc = "done", !.sent = Append(@, MethodNotAllowed)]
       ELSE IF web.body.k = "undefined"
               \/ web.body.bodyPreview.k = "object"
               \/ Or(web.body.JSON, Or(web.body.bodyPreview, web.body.content)).k = "object"
            THEN \* req.body.subject of no body (line 592), bodyPreview.substring
                 \* of a value that has none (line 593), emailBody.match of a
                 \* value that has none (line 112)
                 web' = [web EXCEPT !.pc = "catch", !.threw = TRUE]
            ELSE LET subject == ToStr(Or(web.body.subject,
                                         Str(<<"L","o","a","d"," ","I","n","q","u","i","r","y">>)))
                     emailContent == ToStr(Or(web.body.JSON,
                                              Or(web.body.bodyPreview,
                                                 Or(web.body.content, Str(<<>>)))))
                     loadReference == webExtractLoadReference(emailContent)
                     hasCredentials == web.QF_USERNAME /\ web.QF_PASSWORD
                 IN  web' = [web EXCEPT !.subject = subject,
                                        !.loadReference = loadReference,
                                        !.hasCredentials = Truthy(loadReference) /\ hasCredentials,
                                        !.pc = IF Truthy(loadReference) /\ hasCredentials
                                               THEN "initialize" ELSE "respond"]
    /\ UNCHANGED notWeb

\* initialize(), lines 18-86; line 615
WebInitialize(connectOk, launchOk, pageSetup) ==
    /\ web.pc = "initialize"
    /\ LET connected == web.BROWSERLESS_TOKEN /\ connectOk
           obtained == connected \/ (~web.isServerless /\ launchOk)
           browserReady == obtained /\ pageSetup = "ok"
       IN  web' = [web EXCEPT !.browser = IF obtained THEN "open" ELSE @,
                              !.page = IF obtained /\ pageSetup # "newPageThrows"
                                       THEN "open" ELSE @,
                              !.calls.initialize = @ + 1,
                              !.browserReady = browserReady,
                              !.pc = IF browserReady THEN "login" ELSE "httpCheck"]
    /\ UNCHANGED notWeb

\* the handler without the test of line 618
WebLoginUnguarded(loginSuccess) ==
    /\ web.pc = "login"
    /\ web' = [web EXCEPT !.calls.loginToQuoteFactory = @ + 1,
                          !.loginSuccess = loginSuccess,
                          !.pc = "search"]
    /\ UNCHANGED notWeb

\* loginToQuoteFactory(), lines 150-273; lines 617-618
WebLogin(loginSuccess) ==
    /\ web.pc = "login"
    /\ web' = [web EXCEPT !.calls.loginToQuoteFactory = @ + 1,
                          !.loginSuccess = loginSuccess,
                          !.pc = IF loginSuccess THEN "search" ELSE "cleanup"]
    /\ UNCHANGED notWeb

\* searchLoadInfo(loadReference), lines 276-353; line 619
WebSearch(threw, scraped) ==
    /\ web.pc = "search"
    /\ web' = [web EXCEPT !.loadInfo = webSearchResult(threw, scraped),
                          !.calls.searchLoadInfo = @ + 1,
                          !.pc = "cleanup"]
    /\ UNCHANGED notWeb

\* line 621
WebCleanup(pageCloseThrows, browserCloseThrows) ==
    /\ web.pc = "cleanup"
    /\ web' = [webCleanup(web, pageCloseThrows, browserCloseThrows) EXCEPT !.pc = "respond"]
    /\ UNCHANGED notWeb

\* lines 627-641: the fetch, whose outcome changes nothing but the log
WebHttpCheck ==
    /\ web.pc = "httpCheck"
    /\ web' = [web EXCEPT !.pc = "respond"]
    /\ UNCHANGED notWeb

\* lines 648-661
WebRespond ==
    /\ web.pc = "respond"
    /\ LET responseEmail == webFormatResponse(web.loadReference, web.loadInfo, web.subject)
       IN  web' = [web EXCEPT !.pc = "done",
                     !.sent = Append(@, WebReply(200, responseEmail.subject, responseEmail.body))]
    /\ UNCHANGED notWeb

\* lines 663-675
WebCatch(pageCloseThrows, browserCloseThrows) ==
    /\ web.pc = "catch"
    /\ web' = [webCleanup(web, pageCloseThrows, browserCloseThrows)
                 EXCEPT !.pc = "done", !.sent = Append(@, webFallbackReply)]
    /\ UNCHANGED notWeb

WebhookNext ==
    \/ WebReceive
    \/ \E connectOk \in BOOLEAN, launchOk \in BOOLEAN,
          pageSetup \in {"ok", "newPageThrows", "setupThrows"} :
           WebInitialize(connectOk, launchOk, pageSetup)
    \/ \E loginSuccess \in BOOLEAN : WebLogin(loginSuccess)
    \/ \E threw \in BOOLEAN, scraped \in ScrapedInfos : WebSearch(threw, scraped)
    \/ \E pageCloseThrows \in BOOLEAN, browserCloseThrows \in BOOLEAN :
           WebCleanup(pageCloseThrows, browserCloseThrows)
    \/ WebHttpCheck
    \/ WebRespond
    \/ \E pageCloseThrows \in BOOLEAN, browserCloseThrows \in BOOLEAN :
           WebCatch(pageCloseThrows, browserCloseThrows)

WebhookSpecInit ==
    WebInit /\ ParserOff /\ ServiceOff /\ ZapOff /\ FmtOff /\ TruncOff /\ ExpOff /\ ApiOff /\ Auth0Off
WebhookSpec == WebhookSpecInit /\ [][WebhookNext]_vars

(***************************************************************************)
(* LoadAutomationEnhanced.processEmail, lines 166-201: from the call to the *)
(* first await, and from each await to the next or to the return            *)
(***************************************************************************)
\* the catch block and the finally block: the reply is returned and the
\* browser, when there is one, is closed
ExpFail(message, browser) ==
    exp' = [exp EXCEPT !.pc = "done", !.browser = browser,
                       !.closes = IF browser THEN @ + 1 ELSE @,
                       !.result = expCatch(exp.emailData, message)]

\* lines 167-173
ExpCall ==
    /\ exp.pc = "call"
    /\ IF exp.emailData.body.k # "string"
       THEN ExpFail(IF exp.emailData.body.k = "undefined"
                    THEN CannotReadMatch ELSE MatchIsNotAFunction, FALSE)
       ELSE IF ~Truthy(expExtractLoadReference(exp.emailData.body.v))
            THEN ExpFail(LoadReferenceNotFound, FALSE)
            ELSE exp' = [exp EXCEPT !.pc = "initialize",
                            !.loadReference = expExtractLoadReference(exp.emailData.body.v)]
    /\ UNCHANGED notExp

\* line 174: initialize() has no try block; puppeteer.launch or a later call
\* of it throws (this.browser is set once launch has returned), or it returns
ExpInitialize ==
    /\ exp.pc = "initialize"
    /\ \E outcome \in ExpOutcomes, launched \in BOOLEAN :
        IF outcome.kind = "ok"
        THEN launched /\ exp' = [exp EXCEPT !.pc = "login", !.browser = TRUE]
        ELSE ExpFail(outcome.message, launched)
    /\ UNCHANGED notExp

\* line 175
ExpLogin ==
    /\ exp.pc = "login"
    /\ \E outcome \in ExpOutcomes :
        IF outcome.kind = "ok"
        THEN exp' = [exp EXCEPT !.pc = "search"]
        ELSE ExpFail(outcome.message, TRUE)
    /\ UNCHANGED notExp

\* lines 176-186 and the finally block
ExpSearch ==
    /\ exp.pc = "search"
    /\ \E outcome \in ExpOutcomes, loadInfo \in ExpLoadInfos :
        IF outcome.kind = "ok"
        THEN exp' = [exp EXCEPT !.pc = "done", !.closes = @ + 1,
                        !.result = expFormatResponse(
                            [loadInfo EXCEPT !.loadReference = exp.loadReference.v],
                            exp.emailData.subject, exp.emailData.from)]
        ELSE ExpFail(outcome.message, TRUE)
    /\ UNCHANGED notExp

ExpressNext == ExpCall \/ ExpInitialize \/ ExpLogin \/ ExpSearch

ExpressSpecInit ==
    ExpInit /\ ParserOff /\ ServiceOff /\ ZapOff /\ WebOff /\ FmtOff /\ TruncOff /\ ApiOff /\ Auth0Off
ExpressSpec == ExpressSpecInit /\ [][ExpressNext]_vars

(***************************************************************************)
(* QuoteFactoryAPI.searchLoad (zapier-modules/api/quotefactory-api.js),    *)
(* from one await to the next                                              *)
(***************************************************************************)
\* new Date(Date.now() + (expiresIn - 300) * 1000): line 29, and line 54 of
\* auth0-client.js
expiryDate(now, expiresIn) ==
    IF expiresIn.k = "number" THEN DateAt(now + (expiresIn.v - 300)) ELSE InvalidDate

\* new Date() >= d and new Date() < d; both are false of Invalid Date
NotBefore(now, d) == d.k = "date" /\ now >= d.t
Before(now, d) == d.k = "date" /\ now < d.t

\* ensureSession without the test of the expiry
needsSessionNoExpiry(a) == ~Truthy(a.sessionToken) \/ a.sessionExpiry.k = "null"

\* line 43: the condition of ensureSession
needsSession(a) ==
    ~Truthy(a.sessionToken) \/ a.sessionExpiry.k = "null" \/ NotBefore(a.now, a.sessionExpiry)

\* what getUserToken gives initialize: it throws, or { accessToken, expiresIn }
AuthThrows == [ok |-> FALSE, accessToken |-> Undefined, expiresIn |-> Undefined]
AuthOk(accessToken, expiresIn) == [ok |-> TRUE, accessToken |-> accessToken, expiresIn |-> expiresIn]
AuthResults ==
    {AuthThrows}
    \cup {AuthOk(Str(<<"t">>), e) : e \in {Num(200), Num(400), Num(500), Undefined}}
    \cup {AuthOk(Undefined, Num(500))}

\* an element of data.results: null, or a load of the API
ApiData(k, referenceNumber, id, status) ==
    [k |-> k, referenceNumber |-> referenceNumber, id |-> id, status |-> status]
NullData == ApiData("null", Undefined, Undefined, Undefined)
ApiLoads == {ApiData("object", Str(<<"3","0","2","7","3","4">>), Str(<<"7">>), Str(<<"O","P","E","N">>)),
             ApiData("object", Undefined, Str(<<"7">>), Undefined)}
JsArray(elements) == [k |-> "object", v |-> elements]
ApiBody(k, results) == [k |-> k, results |-> results]
ApiBodies ==
    {ApiBody("invalid", Undefined), ApiBody("null", Undefined), ApiBody("object", Undefined)}
    \cup {ApiBody("object", JsArray(rs)) :
            rs \in {<<>>, <<NullData>>} \cup {<<d>> : d \in ApiLoads}
                   \cup {<<d, NullData>> : d \in ApiLoads}}
ApiAnswers ==
    {ApiAnswer("rejected", 0, NoApiBody), ApiAnswer("response", 500, NoApiBody),
     ApiAnswer("response", 401, NoApiBody)}
    \cup {ApiAnswer("response", 200, b) : b \in ApiBodies}

\* lines 125-161: transformLoadData, of which the model keeps loadReference
\* and status
transformLoadData(apiData) ==
    IF apiData.k = "null"
    THEN [k |-> "null", loadReference |-> Undefined, status |-> Undefined]
    ELSE [k |-> "object", loadReference |-> Or(apiData.referenceNumber, apiData.id),
          status |-> Or(apiData.status, Str(<<"U","N","K","N","O","W","N">>))]

\* searchLoad answering null to a status that is not OK
searchLoadSettlesQuiet(answer) ==
    IF answer.k = "rejected" \/ answer.body.k \in {"invalid", "null"}
    THEN ApiThrew("Failed to search load")
    ELSE IF answer.status = 200 /\ Truthy(answer.body.results) /\ Len(answer.body.results.v) > 0
         THEN ApiReturned(transformLoadData(answer.body.results.v[1]))
         ELSE ApiReturned(transformLoadData(NullData))

\* lines 70-91 for an answer other than 401: fetch rejects, the status is not
\* OK, response.json() rejects, data is null (data.results throws), or data is
\* an object
searchLoadSettles(answer) ==
    IF answer.k = "rejected" \/ answer.status # 200 \/ answer.body.k \in {"invalid", "null"}
    THEN ApiThrew("Failed to search load")
    ELSE IF Truthy(answer.body.results) /\ Len(answer.body.results.v) > 0
         THEN ApiReturned(transformLoadData(answer.body.results.v[1]))
         ELSE ApiReturned(transformLoadData(NullData))

MaxCalls == 2
MaxSearchRequests == 3

\* lines 42-46 and 55: ensureSession sends the authentication request, or the
\* search request is sent with the session there is
apiEnsureSession(a) ==
    IF needsSession(a)
    THEN [a EXCEPT !.pc = "ensure", !.authRequests = @ + 1, !.callAuths = @ + 1]
    ELSE [a EXCEPT !.pc = "fetch", !.searchRequests = @ + 1]

\* lines 28-29
apiSetSession(a, authResult) ==
    [a EXCEPT !.sessionToken = authResult.accessToken,
              !.sessionExpiry = expiryDate(a.now, authResult.expiresIn),
              !.lastAuth = "ok"]

\* lines 33-36, and 88-91 around the call of line 74
apiInitializeFailed(a) ==
    [a EXCEPT !.pc = "idle", !.lastAuth = "failed",
              !.result = ApiThrew("QuoteFactory initialization failed")]

ApiTick ==
    /\ api.pc # "off"
    /\ api.now < MaxNow * Tick
    /\ api' = [api EXCEPT !.now = @ + Tick]
    /\ UNCHANGED notApi

\* searchLoad(loadReference) is called: lines 51-52
ApiSearchLoad ==
    /\ api.pc = "idle"
    /\ api.calls < MaxCalls
    /\ api' = apiEnsureSession([api EXCEPT !.calls = @ + 1, !.callAuths = 0,
                                           !.searchRequests = 0, !.lastAuth = "none",
                                           !.lastAnswer = NoAnswer, !.result = ApiNotCalled])
    /\ UNCHANGED notApi

\* the initialize() of ensureSession settles: lines 20-37, then line 55
ApiEnsured(authResult) ==
    /\ api.pc = "ensure"
    /\ IF authResult.ok
       THEN api' = [apiSetSession(api, authResult) EXCEPT !.pc = "fetch",
                                                          !.searchRequests = @ + 1]
       ELSE api' = apiInitializeFailed(api)
    /\ UNCHANGED notApi

\* the search request is answered: lines 70-91; a 401 sends the
\* authentication request of line 74
ApiAnswered(answer) ==
    /\ api.pc = "fetch"
    /\ answer.status = 401 => api.searchRequests < MaxSearchRequests
    /\ IF answer.k = "response" /\ answer.status = 401
       THEN api' = [api EXCEPT !.pc = "reauth", !.lastAnswer = answer,
                               !.authRequests = @ + 1, !.callAuths = @ + 1]
       ELSE api' = [api EXCEPT !.pc = "idle", !.lastAnswer = answer,
                               !.result = searchLoadSettles(answer)]
    /\ UNCHANGED notApi

\* the initialize() of line 74 settles, and line 75 calls searchLoad again
ApiReauthenticated(authResult) ==
    /\ api.pc = "reauth"
    /\ IF authResult.ok
       THEN api' = apiEnsureSession(apiSetSession(api, authResult))
       ELSE api' = apiInitializeFailed(api)
    /\ UNCHANGED notApi

ApiNext ==
    \/ ApiTick
    \/ ApiSearchLoad
    \/ \E authResult \in AuthResults : ApiEnsured(authResult)
    \/ \E answer \in ApiAnswers : ApiAnswered(answer)
    \/ \E authResult \in AuthResults : ApiReauthenticated(authResult)

ApiSpecInit ==
    ApiInit /\ ParserOff /\ ServiceOff /\ ZapOff /\ WebOff /\ FmtOff /\ TruncOff /\ ExpOff /\ Auth0Off
ApiSpec == ApiSpecInit /\ [][ApiNext]_vars

(***************************************************************************)
(* Auth0Client.getAccessToken (zapier-modules/auth/auth0-client.js), from  *)
(* one await to the next                                                   *)
(***************************************************************************)
MaxAuthCalls == 3

\* the token request settles: fetch rejects, the status is not OK,
\* response.json() rejects, or the body is { access_token, expires_in }
TokenResponse(k, access_token, expires_in) ==
    [k |-> k, access_token |-> access_token, expires_in |-> expires_in]
TokenResponses ==
    {TokenResponse(k, Undefined, Undefined) : k \in {"rejected", "notOk", "invalid"}}
    \cup {TokenResponse("ok", Str(<<"t">>), e) :
            e \in {Num(200), Num(300), Num(400), Num(500), Undefined}}

\* the expiry without the margin of line 54
tokenExpiryDateNoMargin(now, expires_in) ==
    IF expires_in.k = "number" THEN DateAt(now + expires_in.v) ELSE InvalidDate

\* line 54: new Date(Date.now() + (data.expires_in - 300) * 1000)
tokenExpiryDate(now, expires_in) ==
    IF expires_in.k = "number" THEN DateAt(now + (expires_in.v - 300)) ELSE InvalidDate

\* line 22: the condition of the cache
cacheServes(a) ==
    Truthy(a.tokenCache) /\ a.tokenExpiry.k # "null" /\ Before(a.now, a.tokenExpiry)

Auth0Tick ==
    /\ auth0.on
    /\ auth0.now < MaxNow * Tick
    /\ auth0' = [auth0 EXCEPT !.now = @ + Tick]
    /\ UNCHANGED notAuth0

\* getAccessToken() is called: lines 20-43, to the return of line 23 or to the
\* fetch
Auth0GetAccessToken(c) ==
    /\ auth0.on
    /\ auth0.pc[c] = "idle"
    /\ auth0.calls < MaxAuthCalls
    /\ IF cacheServes(auth0)
       THEN auth0' = [auth0 EXCEPT !.calls = @ + 1, !.failed = FALSE,
                        !.returned[c] = [kind |-> "cache", token |-> auth0.tokenCache,
                                         at |-> auth0.now, fetchedAt |-> auth0.fetchedAt,
                                         expires_in |-> auth0.expires_in]]
       ELSE auth0' = [auth0 EXCEPT !.calls = @ + 1, !.failed = FALSE, !.pc[c] = "fetching",
                                   !.returned[c] = NoToken]
    /\ UNCHANGED notAuth0

\* the token request of caller c settles: lines 44-59
Auth0Responded(c, response) ==
    /\ auth0.on
    /\ auth0.pc[c] = "fetching"
    /\ IF response.k = "ok"
       THEN auth0' = [auth0 EXCEPT !.tokenCache = response.access_token,
                        !.tokenExpiry = tokenExpiryDate(auth0.now, response.expires_in),
                        !.fetchedAt = auth0.now, !.expires_in = response.expires_in,
                        !.failed = FALSE, !.pc[c] = "idle",
                        !.returned[c] = [kind |-> "fetched", token |-> response.access_token,
                                         at |-> auth0.now, fetchedAt |-> auth0.now,
                                         expires_in |-> response.expires_in]]
       ELSE auth0' = [auth0 EXCEPT !.failed = TRUE, !.pc[c] = "idle",
                                   !.returned[c] = [NoToken EXCEPT !.kind = "throw"]]
    /\ UNCHANGED notAuth0

Auth0Next ==
    \/ Auth0Tick
    \/ \E c \in Callers : Auth0GetAccessToken(c)
    \/ \E c \in Callers, response \in TokenResponses : Auth0Responded(c, response)

Auth0SpecInit ==
    Auth0Init /\ ParserOff /\ ServiceOff /\ ZapOff /\ WebOff /\ FmtOff /\ TruncOff /\ ExpOff /\ ApiOff
Auth0Spec == Auth0SpecInit /\ [][Auth0Next]_vars

(***************************************************************************)
(* Claims about extractLoadReference                                       *)
(***************************************************************************)
Returned == ppc = "returned"

\* the text the candidate search runs on, for a string argument
Searched(c) == removeExclusions(sanitizeContent(c.v))

\* the positions of the sanitized text that survive removeExclusions, in order:
\* removeExclusions carried out on positions instead of characters
RECURSIVE keptFrom(_, _, _)
keptFrom(san, idx, k) ==
    IF k > Len(exclusionPatterns) THEN idx
    ELSE keptFrom(san,
                  Cut(idx, Exec(exclusionPatterns[k], [n \in 1..Len(idx) |-> san[idx[n]]], 0)),
                  k + 1)
KeptPositions(san) == keptFrom(san, [n \in 1..Len(san) |-> n], 1)

\* the positions of the digits of every occurrence of an excluded identifier
\* (MC, DOT, USDOT, invoice, bill, PO, phone, tel, fax number) in the text
ExcludedDigits(san) ==
    {n \in 1..Len(san) :
        /\ san[n] \in Digit
        /\ \E k \in 1..Len(exclusionPatterns) :
              LET ms == MatchAll(exclusionPatterns[k], san, 0)
              IN  \E j \in 1..Len(ms) : ms[j].start < n /\ n <= ms[j].end}

\* the positions of the sanitized text the returned reference was captured from
CapturedPositions(san) ==
    LET kept == KeptPositions(san)
        r == searchReference(removeExclusions(san))
    IN  IF r.found THEN {kept[n] : n \in (r.m.cs + 1)..r.m.ce} ELSE {}

\* every candidate the patterns produce on the searched text, valid or not
Candidates(san) ==
    UNION {LET ms == MatchAll(loadPatterns[i], san, 0)
           IN  {normalizeReference(Slice(san, ms[j].cs, ms[j].ce)) : j \in 1..Len(ms)} :
           i \in 1..Len(loadPatterns)}

PositionsAgree ==
    Returned /\ content.k = "string" =>
        LET san == sanitizeContent(content.v)
            kept == KeptPositions(san)
        IN  removeExclusions(san) = [n \in 1..Len(kept) |-> san[kept[n]]]

\* C7: no reference is returned whose digits come from an excluded context:
\* none of the characters the returned reference was captured from is a digit
\* of an occurrence (first or later) of an excluded identifier in the text.
C7_NoExcludedDigits ==
    Returned /\ extraction.found =>
        LET san == sanitizeContent(content.v)
        IN  CapturedPositions(san) \cap ExcludedDigits(san) = {}

C8_Banned == << <<"M","C">>, <<"D","O","T">>, <<"P","O">>, <<"I","N","V">>,
                <<"U","S","D","O","T">> >>

\* C8: a returned reference starts with none of MC, DOT, PO, INV, USDOT.
C8_NoBannedPrefix ==
    Returned /\ extraction.found =>
        \A k \in 1..Len(C8_Banned) : ~StartsWith(extraction.reference.v, C8_Banned[k])

\* C9: a returned reference holds only upper-case letters, digits and hyphens.
C9_Normalized ==
    Returned /\ extraction.found =>
        \A k \in 1..Len(extraction.reference.v) :
            extraction.reference.v[k] \in UpperSet \cup Digit \cup {"-"}

HasDigit(s) == \E k \in 1..Len(s) : s[k] \in Digit

\* is one of the candidates of the matches ms at least 4 characters long with
\* a digit in it
Fits(c) == Len(c) >= 4 /\ HasDigit(c)
SomeMatchFits(san, ms) ==
    \E j \in 1..Len(ms) : Fits(normalizeReference(Slice(san, ms[j].cs, ms[j].ce)))
SomePatternFits(san) ==
    \E i \in 1..Len(loadPatterns) : SomeMatchFits(san, MatchAll(loadPatterns[i], san, 0))

\* C10: a returned reference is 4 to 20 characters long and holds a digit, and
\* an input all of whose candidates are shorter than 4 characters or
\* digit-free yields found = false (a reference is found only in an input
\* with a candidate of 4 characters or more that holds a digit).
C10_LengthAndDigit ==
    Returned =>
        /\ extraction.found =>
              /\ Len(extraction.reference.v) >= 4
              /\ Len(extraction.reference.v) <= 20
              /\ HasDigit(extraction.reference.v)
        /\ content.k = "string" /\ extraction.found
           => SomePatternFits(Searched(content))

\* C10's case: a reference of exactly the minimum length was returned
C10_Witness ==
    /\ Returned
    /\ extraction.found
    /\ Len(extraction.reference.v) = minLength

\* the rejections C10 speaks of happen: a text whose candidates include one of
\* 2 characters with a digit, and a text with one of more than 20 characters
C10_RejectedShort ==
    Returned /\ ~extraction.found /\ content.k = "string"
    /\ \E c \in Candidates(Searched(content)) : Len(c) < minLength /\ HasDigit(c)
C10_RejectedLong ==
    Returned /\ ~extraction.found /\ content.k = "string"
    /\ \E c \in Candidates(Searched(content)) : Len(c) > maxLength /\ HasDigit(c)

\* C11: whatever the argument (a string, the empty string, a value that is no
\* string), the call returns a result with found = true exactly when reference
\* is not null, and a found = false result has reference null and confidence 0.
C11_FoundIffReference ==
    Returned =>
        /\ extraction.found \in BOOLEAN
        /\ extraction.found <=> extraction.reference # Null
        /\ ~extraction.found => extraction.reference = Null /\ extraction.confidence = 0

\* C11's case: the call was made with a value that is no string, or with the
\* empty string, and returned found = false
C11_Witness ==
    /\ Returned
    /\ content \in {Null, Undefined, NonString, Str(<<>>)}
    /\ ~extraction.found

\* is the match m of the searched text a valid candidate
ValidCandidate(san, m) ==
    m.ce > m.cs /\ validateReference(normalizeReference(Slice(san, m.cs, m.ce)))
ValidMatches(san, ms) == {j \in 1..Len(ms) : ValidCandidate(san, ms[j])}
SetMin(S) == CHOOSE x \in S : \A y \in S : x <= y
\* the first pattern from i on (1-based) with at least one valid match in the
\* searched text; 0 when there is none
RECURSIVE FirstWinning(_, _)
FirstWinning(san, i) ==
    IF i > Len(loadPatterns) THEN 0
    ELSE IF ValidMatches(san, MatchAll(loadPatterns[i], san, 0)) # {} THEN i
         ELSE FirstWinning(san, i + 1)
\* the candidate of the leftmost valid match among the matches ms, in text order
LeftmostValid(san, ms) ==
    normalizeReference(Slice(san, ms[SetMin(ValidMatches(san, ms))].cs,
                             ms[SetMin(ValidMatches(san, ms))].ce))
PriorityRule(san, w) ==
    IF w = 0 THEN ~extraction.found
    ELSE /\ extraction.found
         /\ extraction.matchedPattern = w - 1
         /\ extraction.reference
              = Str(LeftmostValid(san, MatchAll(loadPatterns[w], san, 0)))
PriorityRuleOn(san) == PriorityRule(san, FirstWinning(san, 1))

HasInvalidBefore(san, i) ==
    \E k \in 1..i : \E j \in 1..Len(MatchAll(loadPatterns[k], san, 0)) :
        ~ValidCandidate(san, MatchAll(loadPatterns[k], san, 0)[j])
WinningMatch(san, ms) == ms[SetMin(ValidMatches(san, ms))]
TextOf(san, m) == Slice(san, m.start, m.end)
MatchedText(san, i) == TextOf(san, WinningMatch(san, MatchAll(loadPatterns[i + 1], san, 0)))
Mentions(text) ==
    \E w \in {<<"l","o","a","d">>, <<"q","u","o","t","e">>,
               <<"r","e","f","e","r","e","n","c","e">>} : Includes(toLowerCase(text), w)
\* the three steps of the rule, each applied to the outcome of the one before
Boost(c, text) == IF Mentions(text) THEN (IF c + 20 > 100 THEN 100 ELSE c + 20) ELSE c
Penalty(c, i) ==
    IF i \in {Len(loadPatterns) - 2, Len(loadPatterns) - 1}
    THEN (IF c - 30 < 50 THEN 50 ELSE c - 30) ELSE c
RuleConfidence(i, text) == Penalty(Boost(100 - 10 * i, text), i)

\* C13: the confidence of a found reference is 100 - 10 * patternIndex, plus 20
\* capped at 100 when the matched text contains load, quote or reference in
\* any case, minus 30 floored at 50 for the two last patterns; it is an integer
\* of 0..100.
C13_ConfidenceRule ==
    Returned /\ extraction.found =>
        /\ extraction.confidence
             = RuleConfidence(extraction.matchedPattern,
                              MatchedText(Searched(content), extraction.matchedPattern))
        /\ extraction.confidence \in 0..100

\* C13's case: the first pattern matched a text with the word load, so the
\* boost was applied to 100 and capped
C13_Witness ==
    /\ Returned /\ extraction.found
    /\ extraction.matchedPattern = 0
    /\ Mentions(MatchedText(Searched(content), 0))
    /\ extraction.confidence = 100

\* the penalty of the two last patterns is applied too
C13_Penalized ==
    /\ Returned /\ extraction.found
    /\ extraction.matchedPattern >= Len(loadPatterns) - 2
    /\ extraction.confidence = 50

\* C14: two inputs that agree on the characters sanitizeContent is said to
\* keep (the first ContentLimit of the raw input; TruncLimit here) get the
\* same extraction result.
C14_SamePrefixSameResult ==
    trunc.pc = "call" /\ trunc.done = {"a", "b"} => trunc.ra = trunc.rb

\* text beyond the limit of the raw input is never returned as a reference:
\* what is found in an input is found in its first TruncLimit characters too
C14_NothingBeyondLimit ==
    trunc.pc = "call" /\ "a" \in trunc.done /\ trunc.ra.found =>
        extractLoadReferenceTo(Str(FirstChars(trunc.a.v, TruncLimit)), TruncLimit).reference
            = trunc.ra.reference

(***************************************************************************)
(* Claims about ResponseFormatter                                          *)
(***************************************************************************)
\* the number of places at which w occurs in s
Occurrences(s, w) ==
    Cardinality({i \in 0..(Len(s) - Len(w)) : Slice(s, i, i + Len(w)) = w})
\* is anything left of the subject once its prefix and the whitespace around
\* it are gone
HasSubjectText(subject) == Trim(stripReplyPrefix(subject.v)) # <<>>
\* a subject that already has the reference keeps the number of its occurrences
C15_NoDuplicate ==
    fmt.subjects >= 1 /\ Truthy(fmt.data.originalSubject)
    /\ Truthy(fmt.data.loadReference)
    /\ Includes(fmt.data.originalSubject.v, fmt.data.loadReference.v)
    => Occurrences(fmt.subject1, fmt.data.loadReference.v)
         = Occurrences(fmt.data.originalSubject.v, fmt.data.loadReference.v)

\* C15 (amended): formatSubject does not duplicate the reference, and
\* formatting its own result again with the same reference returns it
\* unchanged, for every subject that has text left after its leading
\* re:/fwd:/fw: and the whitespace around it are removed.
C15_IdempotentWithText ==
    /\ C15_NoDuplicate
    /\ fmt.subjects = 2 /\ Truthy(fmt.data.originalSubject)
       /\ HasSubjectText(fmt.data.originalSubject)
       => fmt.subject2 = fmt.subject1

\* C15's case: the first call appended the reference, and the second call, on
\* that result, returned it as it was
C15_Witness ==
    /\ fmt.subjects = 2
    /\ Truthy(fmt.data.originalSubject) /\ Truthy(fmt.data.loadReference)
    /\ ~Includes(fmt.data.originalSubject.v, fmt.data.loadReference.v)
    /\ Includes(fmt.subject1, fmt.data.loadReference.v)
    /\ fmt.subject2 = fmt.subject1

\* C15 as stated: formatting the result again returns it unchanged for every
\* non-empty subject.
C15_IdempotentNonEmpty ==
    fmt.subjects = 2 /\ Truthy(fmt.data.originalSubject)
        => fmt.subject2 = fmt.subject1

\* C16: in every scenario the reply subject does not begin with Re: followed
\* by another re:/fwd:/fw:, and does not contain the text undefined when the
\* original subject is missing.
C16_SubjectHelperEverywhere ==
    fmt.pc = "returned" =>
        /\ ~Run(ReplyPrefix, 1, Slice(fmt.response.subject, 4, Len(fmt.response.subject)),
                0).ok
        /\ fmt.data.originalSubject = Undefined
            => ~Includes(fmt.response.subject, <<"u","n","d","e","f","i","n","e","d">>)

IsPlaceholder(seg) == seg.t = "ph"
\* C17: the body of a reply has no placeholder left.
C17_NoPlaceholderLeft ==
    fmt.pc = "returned" => SelectSeq(fmt.response.body, IsPlaceholder) = <<>>

\* C18: formatResponse never throws.
C18_NeverThrows == fmt.pc # "threw"

(***************************************************************************)
(* Claims about processEmail                                               *)
(***************************************************************************)
\* the scenario the classification rule gives a finished request
ExpectedScenario(r) ==
    IF ~r.extraction.found THEN "no_reference"
    ELSE IF r.outcome.kind = "throw" THEN "error"
         ELSE IF r.outcome.kind = "record" THEN "load_found"
              ELSE "load_pending"

\* C1: every result processEmail returns has success = true and the scenario of
\* the first matching rule: no_reference when nothing was extracted, error
\* when the lookup threw, load_found when it returned a record, load_pending
\* when it returned null or was not made.
C1_Classification ==
    \A p \in Requests :
        req[p].pc = "returned" =>
            /\ req[p].result.success
            /\ req[p].result.response.scenario = ExpectedScenario(req[p])

\* C2: processEmail never rejects, whatever its argument and whatever the
\* lookup does, and the response of every result has a non-empty subject and
\* a non-empty body.
C2_NeverRejects ==
    \A p \in Requests :
        /\ req[p].pc # "rejected"
        /\ req[p].pc = "returned" =>
              /\ req[p].result.response.subject # <<>>
              /\ req[p].result.response.body # <<>>

(***************************************************************************)
(* Claims about the Zapier lookup step                                     *)
(***************************************************************************)
\* C3: when a reference was found, every credential is configured and
\* searchLoad returned a record, the output has scenario load_found,
\* lookup_success true and that record as load_data.
C3_SuccessfulLookup ==
    zap.pc = "done" /\ zap.outcome.kind = "record" =>
        /\ zap.output.scenario = "load_found"
        /\ zap.output.lookup_success
        /\ zap.output.load_data = zap.outcome.data

\* C4: when a reference was found and the lookup is not attempted because a
\* credential is missing, the output has scenario load_pending and
\* lookup_attempted false.
C4_SkippedIsPending ==
    /\ zap.pc = "done"
    /\ zap.found /\ Truthy(zap.load_reference)
    /\ ~(requiredEnvVars \subseteq zap.env)
    => /\ zap.output.scenario = "load_pending"
       /\ ~zap.output.lookup_attempted

(***************************************************************************)
(* Claims about the webhook handler                                        *)
(***************************************************************************)
HasText(body, text) == \E n \in 1..Len(body) : body[n] = L(text)

\* C5: the handler always replies.  At every moment at most one response has
\* been sent, and a handler that has ended has sent exactly one; a POST
\* request is answered with status 200 and a non-empty subject and body, and
\* with the fallback text when something threw; any other method is answered
\* with 405 and no browser is started.
C5_AlwaysOneReply ==
    /\ Len(web.sent) <= 1
    /\ web.pc = "done" => Len(web.sent) = 1
    /\ web.method = "POST" =>
          /\ \A n \in 1..Len(web.sent) :
                /\ web.sent[n].status = 200
                /\ web.sent[n].subject # <<>>
                /\ web.sent[n].body # <<>>
          /\ web.threw /\ web.pc = "done" => web.sent[1].body = <<L(FallbackText)>>
    /\ web.method # "POST" =>
          /\ \A n \in 1..Len(web.sent) : web.sent[n].status = 405
          /\ web.calls.initialize = 0
          /\ web.browser = "none"

\* C5's case: the body was missing, the handler's catch block ran and the
\* fallback reply was sent
C5_Witness ==
    /\ web.pc = "done"
    /\ web.method = "POST"
    /\ web.threw
    /\ web.sent = <<webFallbackReply>>

\* C6: when a reference was extracted and the lookup was skipped or gave no
\* data, the reply asks the capacity question and is not the message about an
\* issue retrieving the details.
C6_PendingReply ==
    /\ web.pc = "done" /\ web.method = "POST" /\ ~web.threw
    /\ Truthy(web.loadReference)
    /\ web.loadInfo.k = "null"
    => /\ HasText(web.sent[1].body, CapacityQuestionText)
       /\ ~HasText(web.sent[1].body, IssueRetrievingText)

\* does the reply show the text w, in its subject or in a value of its body
ValueShows(seg, w) == seg.t = "val" /\ Includes(seg.v, w)
ReplyShows(response, w) ==
    \/ Includes(response.subject, w)
    \/ \E k \in 1..Len(response.body) : ValueShows(response.body[k], w)
SameButMessage(o1, o2) == o1.kind = o2.kind /\ o1.data = o2.data

\* C19: two calls that differ only in the message of the error the lookup
\* threw get the same reply subject and body, and the reply does not show the
\* message.
C19_ReplyHidesError ==
    /\ \A p \in Requests, q \in Requests :
           req[p].pc = "returned" /\ req[q].pc = "returned"
           /\ req[p].email = req[q].email
           /\ SameButMessage(req[p].outcome, req[q].outcome)
           => /\ req[p].result.response.subject = req[q].result.response.subject
              /\ req[p].result.response.body = req[q].result.response.body
    /\ \A p \in Requests :
           req[p].pc = "returned" /\ req[p].outcome.kind = "throw"
           => ~ReplyShows(req[p].result.response, req[p].outcome.message)

\* C19's case: two calls with the same email whose lookups threw errors with
\* different messages have both returned
C19_Witness ==
    \E p \in Requests, q \in Requests :
        /\ req[p].pc = "returned" /\ req[q].pc = "returned"
        /\ req[p].email = req[q].email
        /\ req[p].outcome.kind = "throw" /\ req[q].outcome.kind = "throw"
        /\ req[p].outcome.message # req[q].outcome.message

\* C20: when extraction, initialization, login or search throws, the
\* responseBody returned does not contain the message of the error thrown.
C20_ReplyHidesError ==
    exp.pc = "done" /\ ~exp.result.success =>
        \A k \in 1..Len(exp.result.responseBody) :
            ~ValueShows(exp.result.responseBody[k], exp.result.error)

\* the order the counters of this.metrics keep
MetricsOrdered(m) ==
    /\ m.successfulLookups <= m.successfulExtractions
    /\ m.successfulExtractions <= m.processedEmails
    /\ m.errors <= m.processedEmails
NoCounterDecreases(m, n) ==
    /\ n.processedEmails >= m.processedEmails
    /\ n.successfulExtractions >= m.successfulExtractions
    /\ n.successfulLookups >= m.successfulLookups
    /\ n.errors >= m.errors

\* C29: in every state, whatever the calls and their interleaving,
\* successfulLookups <= successfulExtractions <= processedEmails and
\* errors <= processedEmails, and no step makes a counter smaller.
C29_MetricsOrdered ==
    [][/\ MetricsOrdered(metrics) /\ MetricsOrdered(metrics')
       /\ NoCounterDecreases(metrics, metrics')]_vars

\* C29's case: every request was made, a lookup gave a record and a call ended
\* in the catch block
C29_Witness ==
    /\ metrics.processedEmails = NumRequests
    /\ metrics.successfulLookups >= 1
    /\ metrics.errors >= 1

\* the result processEmail(e) returns on an instance that has processed
\* nothing else, when its lookup (if it makes one) settles as outcome
aloneAfterExtraction(e, ext, outcome, m1) ==
    IF ~ext.found
    THEN finishRequest(e, ext, NotCalled,
             formatResponse("no_reference",
                 FormatData(NoLoad, Undefined, e.subject, Undefined)), m1).result
    ELSE finishRequest(e, ext, outcome, lookupResponse(e, ext, outcome),
             [m1 EXCEPT !.successfulExtractions = 1,
                        !.successfulLookups = IF outcome.kind = "record" THEN 1 ELSE 0]).result
processedAlone(e, outcome) ==
    aloneAfterExtraction(e, extractLoadReference(e.body), outcome,
                         [ZeroMetrics EXCEPT !.processedEmails = 1])

\* C22: the result returned for an email is the one it gets when it is
\* processed alone, whatever other calls are made on the instance before it
\* or interleaved with it.
C22_ResultAsIfAlone ==
    \A p \in Requests :
        req[p].pc = "returned" => req[p].result = processedAlone(req[p].email, req[p].outcome)

\* extract-load-reference.js line 176: `${emailSubject}\n\n${emailBody}`
combinedContent(emailSubject, emailBody) == Str(emailSubject.v \o <<"\n", "\n">> \o emailBody.v)

StringFields(e) == e.k = "object" /\ e.subject.k = "string" /\ e.body.k = "string"

\* C23: an email whose load reference is found in the combined subject and
\* body, as the Zapier extraction step searches it, has extraction.found =
\* TRUE in processEmail as well, the body holding no reference included.
C23_SubjectIsSearched ==
    \A p \in Requests :
        (/\ req[p].pc \in {"awaiting", "returned"}
         /\ StringFields(req[p].email)
         /\ extractLoadReference(combinedContent(req[p].email.subject, req[p].email.body)).found)
            => req[p].extraction.found

\* what extractLoadReference returns for the texts of one token
SingleTokenExtractions == {extractLoadReference(Str(t)) : t \in Tokens}

\* C26: a successful extraction made by a pattern of lower index than that of
\* another successful extraction has a confidence at least as high.
C26_EarlierIsHigher ==
    (ppc = "returned" /\ extraction.found) =>
        \A o \in SingleTokenExtractions :
            (o.found /\ extraction.matchedPattern < o.matchedPattern)
                => extraction.confidence >= o.confidence

\* the response of the handler has been sent
WebResponded == web.pc = "done" /\ Len(web.sent) > 0

\* C28: when the handler has sent its response, no browser that
\* initialize() obtained is still open.
C28_NoBrowserLeak == WebResponded => web.browser # "open"

\* C30: initialize() is called only with a load reference and both
\* credentials, loginToQuoteFactory() only after initialize() returned true,
\* searchLoadInfo() only after loginToQuoteFactory() returned true, each at
\* most once, and none of them without a load reference.
C30_StepsGuarded ==
    /\ web.calls.initialize <= 1
    /\ web.calls.loginToQuoteFactory <= 1
    /\ web.calls.searchLoadInfo <= 1
    /\ web.calls.initialize = 1 =>
          Truthy(web.loadReference) /\ web.QF_USERNAME /\ web.QF_PASSWORD
    /\ web.calls.loginToQuoteFactory = 1 => web.calls.initialize = 1 /\ web.browserReady
    /\ web.calls.searchLoadInfo = 1 => web.calls.loginToQuoteFactory = 1 /\ web.loginSuccess
    /\ ~Truthy(web.loadReference) =>
          web.calls.initialize + web.calls.loginToQuoteFactory + web.calls.searchLoadInfo = 0

C30_Witness == WebResponded /\ web.calls.searchLoadInfo = 1

(***************************************************************************)
(* Claims about QuoteFactoryAPI.searchLoad                                 *)
(***************************************************************************)
ApiCallReturned == api.pc = "idle" /\ api.calls >= 1
OkAnswer(a) == a.k = "response" /\ a.status = 200
FirstResult(b) ==
    /\ b.k = "object"
    /\ Truthy(b.results)
    /\ Len(b.results.v) > 0
    /\ b.results.v[1].k # "null"
FailedAnswer(a) ==
    a.k = "rejected" \/ (a.k = "response" /\ a.status # 200) \/ a.body.k = "invalid"

\* C21: searchLoad returns null exactly when no authentication failed and the
\* API answered OK with an object whose results is missing, empty or begins
\* with null; it returns a load record exactly when the API answered OK with
\* results that begin with a load; every transport, authentication or
\* non-OK-status failure is thrown.
C21_NullOrThrow ==
    ApiCallReturned =>
        /\ api.result.kind \in {"null", "record", "throw"}
        /\ api.result.kind = "null" <=>
              /\ api.lastAuth # "failed"
              /\ OkAnswer(api.lastAnswer)
              /\ api.lastAnswer.body.k = "object"
              /\ ~FirstResult(api.lastAnswer.body)
        /\ api.result.kind = "record" <=>
              /\ api.lastAuth # "failed"
              /\ OkAnswer(api.lastAnswer)
              /\ FirstResult(api.lastAnswer.body)
        /\ (api.lastAuth = "failed" \/ FailedAnswer(api.lastAnswer)) => api.result.kind = "throw"

C21_Witness ==
    /\ ApiCallReturned
    /\ api.result.kind = "null"
    /\ OkAnswer(api.lastAnswer)
    /\ ~Truthy(api.lastAnswer.body.results)

EmptyList(b) == b.k = "object" /\ Truthy(b.results) /\ Len(b.results.v) = 0
SomeResult(b) == b.k = "object" /\ Truthy(b.results) /\ Len(b.results.v) > 0

\* C21 as stated: null exactly for an OK answer with an empty result list, a
\* record for an OK answer with at least one result, a throw for every failure.
C21_NullIffEmptyList ==
    ApiCallReturned =>
        /\ api.result.kind = "null" <=>
              api.lastAuth # "failed" /\ OkAnswer(api.lastAnswer) /\ EmptyList(api.lastAnswer.body)
        /\ (OkAnswer(api.lastAnswer) /\ SomeResult(api.lastAnswer.body)) => api.result.kind = "record"
        /\ (api.lastAuth = "failed" \/ FailedAnswer(api.lastAnswer)) => api.result.kind = "throw"

\* the session is missing or has expired
SessionInvalid(a) == ~Truthy(a.sessionToken) \/ (a.sessionExpiry.k = "date" /\ a.now >= a.sessionExpiry.t)

\* C24: a searchLoad call authenticates before its search request exactly
\* when no session token is set or the session has expired; an authentication
\* request is sent only then or after a 401 answer; a failed initialize
\* leaves sessionToken and sessionExpiry as they were.
C24_SessionCached ==
    [][/\ (api.pc = "idle" /\ api'.calls = api.calls + 1) =>
            /\ api'.callAuths = 1 <=> SessionInvalid(api)
            /\ api'.callAuths = 1 => api'.searchRequests = 0
            /\ api'.callAuths = 0 => api'.searchRequests = 1
       /\ api'.authRequests > api.authRequests =>
            \/ api.pc = "idle" /\ SessionInvalid(api)
            \/ api.pc = "fetch" /\ api'.lastAnswer.status = 401
            \/ api.pc = "reauth" /\ SessionInvalid(api')
       /\ (api.pc \in {"ensure", "reauth"} /\ api'.lastAuth = "failed") =>
            /\ api'.sessionToken = api.sessionToken
            /\ api'.sessionExpiry = api.sessionExpiry]_vars

C24_Witness ==
    /\ api.pc = "idle"
    /\ api.calls = 2
    /\ api.authRequests = 1
    /\ api.result.kind = "record"

\* C25: one searchLoad call sends at most two search requests.
C25_AtMostTwoSearches == api.searchRequests <= 2

(***************************************************************************)
(* Claims about Auth0Client.getAccessToken                                 *)
(***************************************************************************)
\* a token returned from the cache was returned before the last 300 seconds
\* of the expires_in seconds that follow its fetch
ServedInTime(r) ==
    r.kind = "cache" =>
        /\ r.expires_in.k = "number"
        /\ r.expires_in.v > 300
        /\ r.at < r.fetchedAt + r.expires_in.v - 300

\* C27: getAccessToken returns a cached token only before its fetch time
\* plus expires_in - 300 seconds, so never a token with expires_in <= 300,
\* and a failed token request leaves tokenCache and tokenExpiry as they were.
C27_CacheWithinLifetime ==
    [][/\ \A c \in Callers : ServedInTime(auth0'.returned[c])
       /\ auth0'.failed =>
            /\ auth0'.tokenCache = auth0.tokenCache
            /\ auth0'.tokenExpiry = auth0.tokenExpiry]_vars

C27_Witness ==
    \E c \in Callers :
        /\ auth0.returned[c].kind = "cache"
        /\ auth0.returned[c].at > auth0.returned[c].fetchedAt

====
